---- MODULE Spec2Model ----
(***************************************************************************)
(* The synchronized task store of reminder-app-tauri: the Reminder record, *)
(* the bounded Actual list, the store commands of Storage and the merge of *)
(* a local and a cloud ReminderStore.                                      *)
(***************************************************************************)
EXTENDS Integers, Sequences, FiniteSets, TLC

\* ---------------------------------------------------------------- bounds
\* Commands executed in one run after the Storage is constructed.
MaxCmds == 2
\* Largest id the store hands out (add is disabled beyond it).
MaxId == 8
\* Reminders the snapshot of an earlier run holds when the Storage is
\* constructed: up to MaxSavedActual added to Actual, then up to
\* MaxSavedBacklog added to Backlog.
MaxSavedActual == 6
MaxSavedBacklog == 1
\* Largest reading of the wall clock.
MaxClock == 1
\* Longest ordered_ids list passed to reorder.
MaxReorder == 2

\* ------------------------------------------------------- program constants
MAX_ACTUAL_TASKS == 6
\* failed binds of the callback port that are retried
BIND_RETRIES == 5

\* ----------------------------------------------------------------- state
VARIABLES
    data,       \* data[d]: Storage.data of the Storage instance on device d
    disk,       \* disk[d]: the store held by device d's reminders.json
    cloud,      \* the store held by the Drive object reminders.json
    use_drive,  \* use_drive[d]: Storage.use_drive
    now,        \* reading of Utc::now()
    cmds,       \* commands executed so far
    op,         \* the command that ran last, with its arguments and result
    merged,     \* the ReminderStore the last call of merge_stores returned
    session,    \* session[d]: the Option fields of the Storage on device d
    files,      \* files[d]: token.json and oauth_credentials.json of device d
    calls,      \* what the command that ran last called, and how often
    listener,   \* the callback listener of wait_for_oauth_callback
    snap,       \* snap[d]: what reminders.json and its backup hold on device d
    lock        \* AppState.storage, the Mutex, and the tasks that take it

vars == <<data, disk, cloud, use_drive, now, cmds, op, merged,
          session, files, calls, listener, snap, lock>>

Devices == {1, 2}

Urgencies == {"now", "today", "soon", "whenever"}
ListTypes == {"actual", "backlog"}
Messages == {"a", "b"}

\* Option<T>
None == [some |-> FALSE]
Some(x) == [some |-> TRUE, val |-> x]

\* A timestamp string is modelled by the pair <<wall-clock reading, UTC
\* offset>> it spells; any other string by the empty tuple.
to_rfc3339(t) == <<t, 0>>
parse_from_rfc3339(s) ==
    IF Len(s) = 2 THEN [ok |-> TRUE, inst |-> s[1] - s[2]] ELSE [ok |-> FALSE]

EmptyStore == [pending |-> <<>>, completed |-> <<>>]

\* The Option fields of Storage after Storage::new() found no token file.
NoSession ==
    [access_token |-> None, refresh_token |-> None, client_id |-> None,
     client_secret |-> None, folder_id |-> None, file_id |-> None]

\* The access token token.json holds at first, and the one the token
\* endpoint issues on a refresh.
FirstToken == "t1"
NewToken == "t2"

\* token.json as save_oauth_tokens writes it; a refresh token is granted
\* or not
TokenFile(refresh_token) ==
    [token |-> FirstToken, refresh_token |-> refresh_token,
     client_id |-> Some("id"), client_secret |-> Some("secret")]

\* The Option fields of Storage after init_drive loaded the token file tf
\* and found the Drive object.
LoadedSession(tf) ==
    [access_token |-> Some(tf.token), refresh_token |-> tf.refresh_token,
     client_id |-> tf.client_id, client_secret |-> tf.client_secret,
     folder_id |-> Some("folder"), file_id |-> Some("file")]

\* No token.json, no oauth_credentials.json.
NoFiles == [token |-> None, credentials |-> FALSE]
LoggedInFiles == [token |-> Some(TokenFile(Some("r"))), credentials |-> TRUE]

\* One call a command made: call is "load", "refresh" or "upload", result
\* what came back ("missing" when the call was refused for want of an
\* access token or a file id).
Event(call, result) == [call |-> call, result |-> result]
NoCalls == <<>>

\* The listener before wait_for_oauth_callback is called.
\* state is the listener's position: "idle", "accepting" (blocked in
\* accept), "parsing" (a request was read), "returned" (Ok(code)) or
\* "failed" (Err); request is the request being parsed, reply the status of
\* the response sent last, conns counts the connections answered, binds the
\* calls of TcpListener::bind.
IdleListener ==
    [state |-> "idle", request |-> <<>>, reply |-> "", code |-> None,
     conns |-> 0, binds |-> 0]

\* What reminders.json holds on a device: no file ("absent"), a store in the
\* current schema ("current", the store is disk[d]), a LegacyReminderStore
\* ("legacy", the store is the field legacy) or text that parses under
\* neither schema ("garbage").
Content(kind, legacy) == [kind |-> kind, legacy |-> legacy]
CurrentContent == Content("current", EmptyStore)

\* reminders.json as save_local leaves it, and no reminders_backup_v1.json
SavedFile == [content |-> CurrentContent, backup |-> None]

\* The tasks that run commands against the one AppState.
MaxTasks == 2
Tasks == 1..MaxTasks

\* The Mutex unlocked (holder 0) and every task outside a command; seen[t]
\* is Storage.data as task t found it when it took the lock.
FreeLock ==
    [holder |-> 0, pc |-> [t \in Tasks |-> "idle"],
     seen |-> [t \in Tasks |-> None]]

Reminder_new(message, urgency, list_type, t) ==
    [id |-> 0, message |-> message, urgency |-> urgency,
     list_type |-> list_type, created_at |-> to_rfc3339(t),
     is_completed |-> FALSE, completed_at |-> None, sort_order |-> 0]

\* ------------------------------------------------------------- helpers
MaxOf(S) == CHOOSE x \in S : \A y \in S : y <= x
MinOf(S) == CHOOSE x \in S : \A y \in S : x <= y

IdsOf(seq) == {seq[i].id : i \in 1..Len(seq)}
ActualIdx(p) == {i \in 1..Len(p) : p[i].list_type = "actual"}
BacklogIdx(p) == {i \in 1..Len(p) : p[i].list_type = "backlog"}
actual_count(p) == Cardinality(ActualIdx(p))

\* position(|r| r.id == id): the first index holding id, 0 when there is none
position(seq, id) ==
    IF id \in IdsOf(seq)
    THEN MinOf({i \in 1..Len(seq) : seq[i].id = id})
    ELSE 0

\* retain(|r| r.id != id)
RECURSIVE retain_not(_, _)
retain_not(seq, id) ==
    IF seq = <<>> THEN <<>>
    ELSE IF Head(seq).id = id THEN retain_not(Tail(seq), id)
    ELSE <<Head(seq)>> \o retain_not(Tail(seq), id)

\* Vec::remove(pos)
remove_at(seq, pos) == SubSeq(seq, 1, pos - 1) \o SubSeq(seq, pos + 1, Len(seq))

\* next_id that looks at pending only
next_id_of_pending(s) ==
    (IF s.pending = <<>> THEN 0 ELSE MaxOf(IdsOf(s.pending))) + 1

next_id(s) ==
    LET max_pending == IF s.pending = <<>> THEN 0 ELSE MaxOf(IdsOf(s.pending))
        max_completed == IF s.completed = <<>> THEN 0 ELSE MaxOf(IdsOf(s.completed))
    IN  (IF max_pending >= max_completed THEN max_pending ELSE max_completed) + 1

\* filter(Backlog).map(sort_order).min().unwrap_or(0)
min_backlog_order(p) ==
    IF BacklogIdx(p) = {} THEN 0
    ELSE MinOf({p[i].sort_order : i \in BacklogIdx(p)})

\* shift_actual that leaves every sort_order alone
shift_nothing(p) == p

\* for r in pending: if Actual then sort_order += 1
shift_actual(p) ==
    [i \in 1..Len(p) |->
        IF p[i].list_type = "actual"
        THEN [p[i] EXCEPT !.sort_order = @ + 1] ELSE p[i]]

\* bump_least_important_to_backlog that evicts nothing
bump_nothing(p) == p

\* max_by_key keeps the last of several maximal elements
bump_least_important_to_backlog(p) ==
    IF ActualIdx(p) = {} THEN p
    ELSE LET idx == CHOOSE i \in ActualIdx(p) : \A j \in ActualIdx(p) :
                        \/ p[j].sort_order < p[i].sort_order
                        \/ (p[j].sort_order = p[i].sort_order /\ j <= i)
             p1 == [p EXCEPT ![idx].list_type = "backlog"]
         IN  [p1 EXCEPT ![idx].sort_order = min_backlog_order(p1) - 1]

\* promote_from_backlog_if_room without the + 1
promote_beside_last(p) ==
    IF actual_count(p) >= MAX_ACTUAL_TASKS THEN p
    ELSE IF BacklogIdx(p) = {} THEN p
    ELSE LET idx == CHOOSE i \in BacklogIdx(p) : \A j \in BacklogIdx(p) :
                        \/ p[j].sort_order > p[i].sort_order
                        \/ (p[j].sort_order = p[i].sort_order /\ j >= i)
             max_actual_order ==
                 IF ActualIdx(p) = {} THEN -1
                 ELSE MaxOf({p[i].sort_order : i \in ActualIdx(p)})
         IN  [p EXCEPT ![idx].list_type = "actual",
                       ![idx].sort_order = max_actual_order]

\* min_by_key keeps the first of several minimal elements
promote_from_backlog_if_room(p) ==
    IF actual_count(p) >= MAX_ACTUAL_TASKS THEN p
    ELSE IF BacklogIdx(p) = {} THEN p
    ELSE LET idx == CHOOSE i \in BacklogIdx(p) : \A j \in BacklogIdx(p) :
                        \/ p[j].sort_order > p[i].sort_order
                        \/ (p[j].sort_order = p[i].sort_order /\ j >= i)
             max_actual_order ==
                 IF ActualIdx(p) = {} THEN -1
                 ELSE MaxOf({p[i].sort_order : i \in ActualIdx(p)})
         IN  [p EXCEPT ![idx].list_type = "actual",
                       ![idx].sort_order = max_actual_order + 1]

\* ---------------------------------------------- the commands, on a store
add_reminder(s, reminder) ==
    LET id == next_id(s)
        p == s.pending
    IN  IF reminder.list_type = "actual"
        THEN LET p1 == IF actual_count(p) >= MAX_ACTUAL_TASKS
                       THEN bump_least_important_to_backlog(p) ELSE p
                 p2 == shift_actual(p1)
             IN  [s EXCEPT !.pending =
                    Append(p2, [reminder EXCEPT !.id = id, !.sort_order = 0])]
        ELSE [s EXCEPT !.pending =
                    Append(p, [reminder EXCEPT !.id = id,
                               !.sort_order = min_backlog_order(p) - 1])]

update_reminder(s, id, message, urgency) ==
    LET pos == position(s.pending, id)
    IN  IF pos = 0 THEN s
        ELSE [s EXCEPT !.pending[pos].message = message,
                       !.pending[pos].urgency = urgency]

move_reminder(s, id, to_list) ==
    LET p == s.pending
        pos == position(p, id)
    IN  IF pos = 0 THEN s
        ELSE IF p[pos].list_type = to_list THEN s
        ELSE IF to_list = "actual"
        THEN LET others == {i \in ActualIdx(p) : p[i].id # id}
                 p1 == IF Cardinality(others) >= MAX_ACTUAL_TASKS
                       THEN bump_least_important_to_backlog(p) ELSE p
                 p2 == shift_actual(p1)
             IN  [s EXCEPT !.pending =
                    [p2 EXCEPT ![pos].list_type = "actual",
                               ![pos].sort_order = 0]]
        ELSE [s EXCEPT !.pending =
                    [p EXCEPT ![pos].list_type = "backlog",
                              ![pos].sort_order = min_backlog_order(p) - 1]]

set_urgency(s, id, urgency) ==
    LET pos == position(s.pending, id)
    IN  IF pos = 0 THEN s ELSE [s EXCEPT !.pending[pos].urgency = urgency]

\* a delete that fills Actual whatever it removed
delete_always_promotes(s, id) ==
    [pending |-> promote_from_backlog_if_room(retain_not(s.pending, id)),
     completed |-> retain_not(s.completed, id)]

delete_reminder(s, id) ==
    LET pos == position(s.pending, id)
        was_actual == pos # 0 /\ s.pending[pos].list_type = "actual"
        p1 == retain_not(s.pending, id)
        c1 == retain_not(s.completed, id)
    IN  [pending |-> IF was_actual THEN promote_from_backlog_if_room(p1) ELSE p1,
         completed |-> c1]

\* complete_reminder that clones the reminder instead of removing it
complete_keeps_pending(s, id, t) ==
    LET pos == position(s.pending, id)
    IN  IF pos = 0 THEN s
        ELSE [s EXCEPT !.completed =
                Append(@, [s.pending[pos] EXCEPT
                              !.is_completed = TRUE,
                              !.completed_at = Some(to_rfc3339(t))])]

complete_reminder(s, id, t) ==
    LET pos == position(s.pending, id)
    IN  IF pos = 0 THEN s
        ELSE LET was_actual == s.pending[pos].list_type = "actual"
                 reminder == [s.pending[pos] EXCEPT
                                 !.is_completed = TRUE,
                                 !.completed_at = Some(to_rfc3339(t))]
                 p1 == remove_at(s.pending, pos)
             IN  [pending |-> IF was_actual
                              THEN promote_from_backlog_if_room(p1) ELSE p1,
                  completed |-> Append(s.completed, reminder)]

\* an uncomplete that leaves completed_at as it was
reopened_keeps_stamp(reminder) == [reminder EXCEPT !.is_completed = FALSE]

\* reminder.is_completed = false; reminder.completed_at = None
reopened(reminder) ==
    [reminder EXCEPT !.is_completed = FALSE, !.completed_at = None]

\* an uncomplete that always restores to Actual
room_in_actual_always(p) == TRUE

\* if actual_count < MAX_ACTUAL_TASKS
room_in_actual(p) == actual_count(p) < MAX_ACTUAL_TASKS

uncomplete_reminder(s, id) ==
    LET pos == position(s.completed, id)
        p == s.pending
    IN  IF pos = 0 THEN s
        ELSE LET reminder == reopened(s.completed[pos])
                 c1 == remove_at(s.completed, pos)
             IN  IF room_in_actual(p)
                 THEN [pending |-> Append(shift_actual(p),
                                     [reminder EXCEPT !.list_type = "actual",
                                                      !.sort_order = 0]),
                       completed |-> c1]
                 ELSE [pending |-> Append(p,
                                     [reminder EXCEPT !.list_type = "backlog",
                                        !.sort_order = min_backlog_order(p) - 1]),
                       completed |-> c1]

\* for (index, id) in ordered_ids: the first pending reminder with that id
\* gets sort_order = index (0-based)
RECURSIVE reorder_from(_, _, _)
reorder_from(p, ordered_ids, index) ==
    IF ordered_ids = <<>> THEN p
    ELSE LET pos == position(p, Head(ordered_ids))
             p1 == IF pos = 0 THEN p ELSE [p EXCEPT ![pos].sort_order = index]
         IN  reorder_from(p1, Tail(ordered_ids), index + 1)

\* reorder_reminders counting positions from 1
reorder_one_based(s, ordered_ids) ==
    [s EXCEPT !.pending = reorder_from(s.pending, ordered_ids, 1)]

reorder_reminders(s, ordered_ids) ==
    [s EXCEPT !.pending = reorder_from(s.pending, ordered_ids, 0)]

\* ------------------------------------------------------------ merge_stores
\* HashMap<i64, Reminder> as a function from its keys
EmptyMap == [k \in {} |-> None]
map_insert(m, k, r) == [x \in DOMAIN m \cup {k} |-> IF x = k THEN r ELSE m[x]]
map_remove(m, k) == [x \in DOMAIN m \ {k} |-> m[x]]

\* for r in seq { map.insert(r.id, r.clone()) }
RECURSIVE insert_all(_, _)
insert_all(m, seq) ==
    IF seq = <<>> THEN m
    ELSE insert_all(map_insert(m, Head(seq).id, Head(seq)), Tail(seq))

\* completed_at.as_ref().unwrap_or(&created_at)
version_time(r) == IF r.completed_at.some THEN r.completed_at.val ELSE r.created_at

\* the comparison with >= in place of >
cloud_is_not_older(existing, r) ==
    LET a_dt == parse_from_rfc3339(version_time(existing))
        b_dt == parse_from_rfc3339(version_time(r))
    IN  a_dt.ok /\ b_dt.ok /\ b_dt.inst >= a_dt.inst

\* b_dt > a_dt, when both strings parse
cloud_is_newer(existing, r) ==
    LET a_dt == parse_from_rfc3339(version_time(existing))
        b_dt == parse_from_rfc3339(version_time(r))
    IN  a_dt.ok /\ b_dt.ok /\ b_dt.inst > a_dt.inst

\* the loop over cloud.pending without its else branch
RECURSIVE merge_cloud_pending_known_only(_, _)
merge_cloud_pending_known_only(pending_map, seq) ==
    IF seq = <<>> THEN pending_map
    ELSE LET r == Head(seq)
             m1 == IF r.id \in DOMAIN pending_map
                      /\ cloud_is_newer(pending_map[r.id], r)
                   THEN map_insert(pending_map, r.id, r)
                   ELSE pending_map
         IN  merge_cloud_pending_known_only(m1, Tail(seq))

\* the loop over cloud.pending
RECURSIVE merge_cloud_pending(_, _)
merge_cloud_pending(pending_map, seq) ==
    IF seq = <<>> THEN pending_map
    ELSE LET r == Head(seq)
             m1 == IF r.id \in DOMAIN pending_map
                   THEN IF cloud_is_newer(pending_map[r.id], r)
                        THEN map_insert(pending_map, r.id, r)
                        ELSE pending_map
                   ELSE map_insert(pending_map, r.id, r)
         IN  merge_cloud_pending(m1, Tail(seq))

\* the loop over cloud.completed, on the pair of maps
RECURSIVE merge_cloud_completed(_, _)
merge_cloud_completed(maps, seq) ==
    IF seq = <<>> THEN maps
    ELSE LET r == Head(seq)
             c1 == IF r.id \in DOMAIN maps.completed_map
                   THEN maps.completed_map
                   ELSE map_insert(maps.completed_map, r.id, r)
             hit == r.id \in DOMAIN maps.pending_map
         IN  merge_cloud_completed(
                 [pending_map |-> IF hit THEN map_remove(maps.pending_map, r.id)
                                  ELSE maps.pending_map,
                  completed_map |-> IF hit THEN map_insert(c1, r.id, r) ELSE c1],
                 Tail(seq))

\* merge_stores without its last loop
drop_nothing(pending_map, seq, cloud_pending) == pending_map

\* the loop over local.completed against cloud.pending
RECURSIVE drop_locally_completed(_, _, _)
drop_locally_completed(pending_map, seq, cloud_pending) ==
    IF seq = <<>> THEN pending_map
    ELSE drop_locally_completed(
             IF Head(seq).id \in IdsOf(cloud_pending)
             THEN map_remove(pending_map, Head(seq).id) ELSE pending_map,
             Tail(seq), cloud_pending)

\* merge_stores whose last loop runs over local.pending
merge_maps_wrong_loop(local, cloud_store) ==
    LET pm1 == merge_cloud_pending(insert_all(EmptyMap, local.pending),
                                   cloud_store.pending)
        both == merge_cloud_completed(
                    [pending_map |-> pm1,
                     completed_map |-> insert_all(EmptyMap, local.completed)],
                    cloud_store.completed)
    IN  [pending_map |-> drop_locally_completed(both.pending_map,
                              local.pending, cloud_store.pending),
         completed_map |-> both.completed_map]

merge_maps(local, cloud_store) ==
    LET pm1 == merge_cloud_pending(insert_all(EmptyMap, local.pending),
                                   cloud_store.pending)
        both == merge_cloud_completed(
                    [pending_map |-> pm1,
                     completed_map |-> insert_all(EmptyMap, local.completed)],
                    cloud_store.completed)
    IN  [pending_map |-> drop_locally_completed(both.pending_map,
                              local.completed, cloud_store.pending),
         completed_map |-> both.completed_map]

\* into_values().collect(): the values in the order the HashMap iterates,
\* which is unspecified
into_values(m) ==
    {seq \in [1..Cardinality(DOMAIN m) -> {m[k] : k \in DOMAIN m}] :
        {seq[i].id : i \in 1..Len(seq)} = DOMAIN m}

\* every ReminderStore a call of merge_stores can return
merge_stores(local, cloud_store) ==
    LET maps == merge_maps(local, cloud_store)
    IN  {[pending |-> p, completed |-> c] :
            p \in into_values(maps.pending_map),
            c \in into_values(maps.completed_map)}

\* ------------------------------------------------------------ persistence
\* What the network answers during one cloud call with its refresh and
\* retry: first is the answer to the Drive request ("ok", "expired" for a
\* 401, "error" for anything else), refresh the answer of the token endpoint
\* ("ok" or "fail"), second the answer to the repeated Drive request ("ok"
\* or "error").
Answers(first, refresh, second) ==
    [first |-> first, refresh |-> refresh, second |-> second]
AnswersOk == Answers("ok", "fail", "error")
AnswersError == Answers("error", "fail", "error")

\* a save_token_to_file that writes a file with the new token alone
save_token_alone(f, new_token) ==
    IF f.token.some
    THEN [ok |-> TRUE,
          f |-> [f EXCEPT !.token = Some([token |-> new_token,
                                          refresh_token |-> None,
                                          client_id |-> None,
                                          client_secret |-> None])]]
    ELSE [ok |-> FALSE, f |-> f]

\* save_token_to_file: reads token.json, replaces its token field, writes it
save_token_to_file(f, new_token) ==
    IF f.token.some
    THEN [ok |-> TRUE,
          f |-> [f EXCEPT !.token = Some([f.token.val EXCEPT !.token = new_token])]]
    ELSE [ok |-> FALSE, f |-> f]

\* Storage::refresh_access_token over oauth::refresh_access_token
refresh_access_token(sess, f, answer) ==
    IF /\ sess.refresh_token.some /\ sess.client_id.some
       /\ sess.client_secret.some
       /\ answer = "ok"
       /\ save_token_to_file(f, NewToken).ok
    THEN [ok |-> TRUE, sess |-> [sess EXCEPT !.access_token = Some(NewToken)],
          f |-> save_token_to_file(f, NewToken).f]
    ELSE [ok |-> FALSE, sess |-> sess, f |-> f]

\* a save_to_drive that repeats the upload although the refresh failed
save_to_drive_retries_anyway(sess, f, cio) ==
    IF ~sess.access_token.some \/ ~sess.file_id.some
    THEN [ok |-> FALSE, sess |-> sess, f |-> f,
          log |-> <<Event("upload", "missing")>>]
    ELSE IF cio.first = "ok"
    THEN [ok |-> TRUE, sess |-> sess, f |-> f,
          log |-> <<Event("upload", "ok")>>]
    ELSE IF cio.first = "expired"
    THEN LET r == refresh_access_token(sess, f, cio.refresh)
         IN  [ok |-> cio.second = "ok", sess |-> r.sess, f |-> r.f,
              log |-> <<Event("upload", "expired"),
                        Event("refresh", IF r.ok THEN "ok" ELSE "fail"),
                        Event("upload", cio.second)>>]
    ELSE [ok |-> FALSE, sess |-> sess, f |-> f,
          log |-> <<Event("upload", "error")>>]

\* Storage::save_to_drive: whether it returned Ok (the Drive object is
\* written exactly then), the session and token file it leaves, its calls
save_to_drive(sess, f, cio) ==
    IF ~sess.access_token.some \/ ~sess.file_id.some
    THEN [ok |-> FALSE, sess |-> sess, f |-> f,
          log |-> <<Event("upload", "missing")>>]
    ELSE IF cio.first = "ok"
    THEN [ok |-> TRUE, sess |-> sess, f |-> f,
          log |-> <<Event("upload", "ok")>>]
    ELSE IF cio.first = "expired"
    THEN LET r == refresh_access_token(sess, f, cio.refresh)
         IN  IF r.ok
             THEN [ok |-> cio.second = "ok", sess |-> r.sess, f |-> r.f,
                   log |-> <<Event("upload", "expired"), Event("refresh", "ok"),
                             Event("upload", cio.second)>>]
             ELSE [ok |-> FALSE, sess |-> sess, f |-> f,
                   log |-> <<Event("upload", "expired"),
                             Event("refresh", "fail")>>]
    ELSE [ok |-> FALSE, sess |-> sess, f |-> f,
          log |-> <<Event("upload", "error")>>]

\* save_local / save / save_local_only: lio is the outcome of fs::write,
\* cio the answers of the network to save_to_drive.
\* mode "none": the handler returned before saving; "local": save_local_only
\* or save_local; "full": save.
local_written(mode, lio) == mode # "none" /\ lio = "ok"
\* a save_local_only that goes on to the cloud like save
cloud_called_by_every_save(d, mode, lio) ==
    mode # "none" /\ lio = "ok" /\ use_drive[d]
cloud_called(d, mode, lio) == mode = "full" /\ lio = "ok" /\ use_drive[d]
cloud_written(d, mode, lio, cio) ==
    cloud_called(d, mode, lio) /\ save_to_drive(session[d], files[d], cio).ok
save_result(d, mode, lio, cio) ==
    IF mode = "none" THEN "ok"
    ELSE IF lio # "ok" THEN "err_local"
    ELSE IF cloud_called(d, mode, lio) /\ ~cloud_written(d, mode, lio, cio)
    THEN "err_cloud"
    ELSE "ok"

\* a save that undoes the local write when the cloud write fails
Persist_rolls_back(d, s2, mode, lio, cio) ==
    LET up == save_to_drive(session[d], files[d], cio)
        called == cloud_called(d, mode, lio)
    IN  /\ data' = [data EXCEPT ![d] = s2]
        /\ disk' = IF local_written(mode, lio)
                       /\ (called => cloud_written(d, mode, lio, cio))
                    THEN [disk EXCEPT ![d] = s2] ELSE disk
        /\ cloud' = IF cloud_written(d, mode, lio, cio) THEN s2 ELSE cloud
        /\ session' = IF called THEN [session EXCEPT ![d] = up.sess] ELSE session
        /\ files' = IF called THEN [files EXCEPT ![d] = up.f] ELSE files
        /\ calls' = IF called THEN up.log ELSE NoCalls
        /\ snap' = IF local_written(mode, lio)
                        /\ (called => cloud_written(d, mode, lio, cio))
                     THEN [snap EXCEPT ![d].content = CurrentContent] ELSE snap
        /\ cmds' = cmds + 1
        /\ UNCHANGED <<use_drive, merged, listener>>

\* a save whose local write happens before the command changes the store
Persist_writes_first(d, s2, mode, lio, cio) ==
    LET up == save_to_drive(session[d], files[d], cio)
        called == cloud_called(d, mode, lio)
    IN  /\ data' = [data EXCEPT ![d] = s2]
        /\ disk' = IF local_written(mode, lio)
                    THEN [disk EXCEPT ![d] = data[d]] ELSE disk
        /\ cloud' = IF cloud_written(d, mode, lio, cio) THEN s2 ELSE cloud
        /\ session' = IF called THEN [session EXCEPT ![d] = up.sess] ELSE session
        /\ files' = IF called THEN [files EXCEPT ![d] = up.f] ELSE files
        /\ calls' = IF called THEN up.log ELSE NoCalls
        /\ snap' = IF local_written(mode, lio)
                     THEN [snap EXCEPT ![d].content = CurrentContent] ELSE snap
        /\ cmds' = cmds + 1
        /\ UNCHANGED <<use_drive, merged, listener>>

Persist(d, s2, mode, lio, cio) ==
    LET up == save_to_drive(session[d], files[d], cio)
        called == cloud_called(d, mode, lio)
    IN  /\ data' = [data EXCEPT ![d] = s2]
        /\ disk' = IF local_written(mode, lio) THEN [disk EXCEPT ![d] = s2] ELSE disk
        /\ cloud' = IF cloud_written(d, mode, lio, cio) THEN s2 ELSE cloud
        /\ session' = IF called THEN [session EXCEPT ![d] = up.sess] ELSE session
        /\ files' = IF called THEN [files EXCEPT ![d] = up.f] ELSE files
        /\ calls' = IF called THEN up.log ELSE NoCalls
        /\ snap' = IF local_written(mode, lio)
                     THEN [snap EXCEPT ![d].content = CurrentContent] ELSE snap
        /\ cmds' = cmds + 1
        /\ UNCHANGED <<use_drive, merged, listener>>

OpRec(name, d, id, lt, pre, ret) ==
    [name |-> name, dev |-> d, id |-> id, lt |-> lt, pre |-> pre, ret |-> ret,
     ids |-> <<>>]

\* ---------------------------------------------------------------- actions
AddReminder(d, message, urgency, list_type, lio, cio) ==
    /\ Persist(d, add_reminder(data[d],
                    Reminder_new(message, urgency, list_type, now)),
               "full", lio, cio)
    /\ op' = OpRec("add", d, next_id(data[d]), list_type,
                   actual_count(data[d].pending),
                   save_result(d, "full", lio, cio))
    /\ UNCHANGED now

\* an update that saves whether or not it found the reminder
UpdateReminder_always_saves(d, id, message, urgency, lio, cio) ==
    /\ Persist(d, update_reminder(data[d], id, message, urgency),
               "full", lio, cio)
    /\ op' = OpRec("update", d, id, "", actual_count(data[d].pending),
                   save_result(d, "full", lio, cio))
    /\ UNCHANGED now

UpdateReminder(d, id, message, urgency, lio, cio) ==
    LET mode == IF position(data[d].pending, id) = 0 THEN "none" ELSE "full"
    IN  /\ Persist(d, update_reminder(data[d], id, message, urgency),
                   mode, lio, cio)
        /\ op' = OpRec("update", d, id, "", actual_count(data[d].pending),
                       save_result(d, mode, lio, cio))
        /\ UNCHANGED now

MoveReminder(d, id, to_list, lio) ==
    LET pos == position(data[d].pending, id)
        mode == IF pos = 0 THEN "none"
                ELSE IF data[d].pending[pos].list_type = to_list THEN "none"
                ELSE "local"
    IN  /\ Persist(d, move_reminder(data[d], id, to_list), mode, lio, AnswersOk)
        /\ op' = OpRec("move", d, id, to_list, actual_count(data[d].pending),
                       save_result(d, mode, lio, AnswersOk))
        /\ UNCHANGED now

SetUrgency(d, id, urgency, lio) ==
    LET mode == IF position(data[d].pending, id) = 0 THEN "none" ELSE "local"
    IN  /\ Persist(d, set_urgency(data[d], id, urgency), mode, lio, AnswersOk)
        /\ op' = OpRec("set_urgency", d, id, "", actual_count(data[d].pending),
                       save_result(d, mode, lio, AnswersOk))
        /\ UNCHANGED now

DeleteReminder(d, id, lio, cio) ==
    /\ Persist(d, delete_reminder(data[d], id), "full", lio, cio)
    /\ op' = OpRec("delete", d, id, "", actual_count(data[d].pending),
                   save_result(d, "full", lio, cio))
    /\ UNCHANGED now

CompleteReminder(d, id, lio, cio) ==
    LET mode == IF position(data[d].pending, id) = 0 THEN "none" ELSE "full"
    IN  /\ Persist(d, complete_reminder(data[d], id, now), mode, lio, cio)
        /\ op' = OpRec("complete", d, id, "", actual_count(data[d].pending),
                       save_result(d, mode, lio, cio))
        /\ UNCHANGED now

UncompleteReminder(d, id, lio, cio) ==
    LET mode == IF position(data[d].completed, id) = 0 THEN "none" ELSE "full"
    IN  /\ Persist(d, uncomplete_reminder(data[d], id), mode, lio, cio)
        /\ op' = OpRec("uncomplete", d, id, "", actual_count(data[d].pending),
                       save_result(d, mode, lio, cio))
        /\ UNCHANGED now

ReorderReminders(d, ordered_ids, lio) ==
    /\ Persist(d, reorder_reminders(data[d], ordered_ids), "local", lio, AnswersOk)
    /\ op' = [OpRec("reorder", d, 0, "", actual_count(data[d].pending),
                    save_result(d, "local", lio, AnswersOk))
                 EXCEPT !.ids = ordered_ids]
    /\ UNCHANGED now

\* Storage::load_from_drive once drive::load_from_drive has returned
\* cloud_data: every value self.data can take
load_from_drive(local, cloud_data) ==
    LET local_count == Len(local.pending) + Len(local.completed)
        cloud_count == Len(cloud_data.pending) + Len(cloud_data.completed)
    IN  IF local_count > 0 /\ cloud_count > 0
        THEN merge_stores(local, cloud_data)
        ELSE IF cloud_count > 0 THEN {cloud_data} ELSE {local}

\* the branch load_from_drive takes
load_branch(local, cloud_data) ==
    LET local_count == Len(local.pending) + Len(local.completed)
        cloud_count == Len(cloud_data.pending) + Len(cloud_data.completed)
    IN  IF local_count > 0 /\ cloud_count > 0 THEN "merge"
        ELSE IF cloud_count > 0 THEN "cloud" ELSE "local"

\* a Storage that takes every session for a cloud session
drive_always_in_use(d) == TRUE

\* if self.use_drive
drive_in_use(d) == use_drive[d]

\* the download of Storage::load_from_drive, refused without an access
\* token or a file id
download(sess, answer) ==
    IF ~sess.access_token.some \/ ~sess.file_id.some THEN "missing" ELSE answer

\* refresh_from_cloud without the retry of the load
load_without_retry(sess, f, ld) ==
    LET first == download(sess, ld.first)
    IN  IF first = "ok"
        THEN [ok |-> TRUE, sess |-> sess, f |-> f, log |-> <<Event("load", "ok")>>]
        ELSE LET r == refresh_access_token(sess, f, ld.refresh)
             IN  [ok |-> r.ok, sess |-> r.sess, f |-> r.f,
                  log |-> <<Event("load", first),
                            Event("refresh", IF r.ok THEN "ok" ELSE "fail")>>]

\* if let Err(_) = self.load_from_drive() { self.refresh_access_token()?;
\* self.load_from_drive()?; }
load_with_retry(sess, f, ld) ==
    LET first == download(sess, ld.first)
    IN  IF first = "ok"
        THEN [ok |-> TRUE, sess |-> sess, f |-> f, log |-> <<Event("load", "ok")>>]
        ELSE LET r == refresh_access_token(sess, f, ld.refresh)
                 second == download(r.sess, ld.second)
             IN  IF r.ok
                 THEN [ok |-> second = "ok", sess |-> r.sess, f |-> r.f,
                       log |-> <<Event("load", first), Event("refresh", "ok"),
                                 Event("load", second)>>]
                 ELSE [ok |-> FALSE, sess |-> sess, f |-> f,
                       log |-> <<Event("load", first), Event("refresh", "fail")>>]

\* refresh_from_cloud: ld holds the answers of the network to the load, cio
\* to the upload, lio is the outcome of fs::write
RefreshFromCloud(d, ld, cio, lio) ==
    LET ldr == load_with_retry(session[d], files[d], ld)
        up == save_to_drive(ldr.sess, ldr.f, cio)
        pre == actual_count(data[d].pending)
    IN  /\ cmds' = cmds + 1
        /\ UNCHANGED <<use_drive, now, merged, listener>>
        /\ IF ~drive_in_use(d)
           THEN /\ op' = OpRec("refresh", d, 0, "", pre, "false")
                /\ calls' = NoCalls
                /\ UNCHANGED <<data, disk, cloud, session, files, snap>>
           ELSE IF ~ldr.ok
           THEN /\ op' = OpRec("refresh", d, 0, "", pre, "err_cloud")
                /\ calls' = ldr.log
                /\ session' = [session EXCEPT ![d] = ldr.sess]
                /\ files' = [files EXCEPT ![d] = ldr.f]
                /\ UNCHANGED <<data, disk, cloud, snap>>
           ELSE \E s2 \in load_from_drive(data[d], cloud) :
                /\ data' = [data EXCEPT ![d] = s2]
                /\ cloud' = IF up.ok THEN s2 ELSE cloud
                /\ disk' = IF lio = "ok" THEN [disk EXCEPT ![d] = s2] ELSE disk
                /\ snap' = IF lio = "ok"
                             THEN [snap EXCEPT ![d].content = CurrentContent]
                             ELSE snap
                /\ session' = [session EXCEPT ![d] = up.sess]
                /\ files' = [files EXCEPT ![d] = up.f]
                /\ calls' = ldr.log \o up.log
                /\ op' = OpRec("refresh", d, 0, load_branch(data[d], cloud), pre,
                               IF lio = "ok" THEN "true" ELSE "err_local")

\* sync_to_cloud
SyncToCloud(d, cio) ==
    LET up == save_to_drive(session[d], files[d], cio)
    IN  /\ cmds' = cmds + 1
        /\ cloud' = IF drive_in_use(d) /\ up.ok THEN data[d] ELSE cloud
        /\ session' = IF drive_in_use(d)
                       THEN [session EXCEPT ![d] = up.sess] ELSE session
        /\ files' = IF drive_in_use(d) THEN [files EXCEPT ![d] = up.f] ELSE files
        /\ calls' = IF drive_in_use(d) THEN up.log ELSE NoCalls
        /\ op' = OpRec("sync", d, 0, "", actual_count(data[d].pending),
                       IF drive_in_use(d) /\ ~up.ok THEN "err_cloud" ELSE "ok")
        /\ UNCHANGED <<data, disk, use_drive, now, merged, listener, snap>>

\* a disconnect that leaves token.json in place
disconnect_keeps_file(f, rio) == [ok |-> TRUE, f |-> f]

\* oauth::disconnect: rio is the outcome of fs::remove_file
disconnect(f, rio) ==
    IF f.token.some
    THEN IF rio = "ok" THEN [ok |-> TRUE, f |-> [f EXCEPT !.token = None]]
         ELSE [ok |-> FALSE, f |-> f]
    ELSE [ok |-> TRUE, f |-> f]

\* disconnect_drive
DisconnectDrive(d, rio) ==
    LET r == disconnect(files[d], rio)
    IN  /\ cmds' = cmds + 1
        /\ files' = [files EXCEPT ![d] = r.f]
        /\ use_drive' = IF r.ok THEN [use_drive EXCEPT ![d] = FALSE] ELSE use_drive
        /\ session' = IF r.ok
                       THEN [session EXCEPT ![d].access_token = None,
                                            ![d].refresh_token = None,
                                            ![d].file_id = None]
                       ELSE session
        /\ calls' = NoCalls
        /\ op' = OpRec("disconnect", d, 0, "", actual_count(data[d].pending),
                       IF r.ok THEN "ok" ELSE "err_local")
        /\ UNCHANGED <<data, disk, cloud, now, merged, listener, snap>>

\* has_oauth_credentials, is_logged_in, get_oauth_status
has_oauth_credentials(d) == files[d].credentials
is_logged_in(d) == use_drive[d] /\ session[d].access_token.some
get_oauth_status(d) == <<has_oauth_credentials(d), is_logged_in(d)>>

\* a direct call merge_stores(&local, &cloud) on data[1] and cloud
MergeStores ==
    /\ op.name = "new"
    /\ merged' \in merge_stores(data[1], cloud)
    /\ op' = OpRec("merge", 1, 0, "", actual_count(data[1].pending), "ok")
    /\ UNCHANGED <<data, disk, cloud, use_drive, now, cmds,
                   session, files, calls, listener, snap, lock>>

\* the wall clock advances between commands
Tick ==
    /\ now < MaxClock
    /\ now' = now + 1
    /\ UNCHANGED <<data, disk, cloud, use_drive, cmds, op, merged,
                   session, files, calls, listener, snap, lock>>

\* ------------------------------------------------------ input sets
\* the urgencies the commands are called with
UrgencyInputs == {"now", "soon"}
Ids == 1..MaxId
IdLists == UNION {[1..n -> Ids] : n \in 0..MaxReorder}

\* The snapshots an earlier run of the program can have left in
\* reminders.json: the empty store of a first run, or the store that na adds
\* to Actual followed by nb adds to Backlog build from the empty store.
RECURSIVE add_all(_, _, _)
add_all(s, n, list_type) ==
    IF n = 0 THEN s
    ELSE add_all(add_reminder(s, Reminder_new("a", "today", list_type, 0)),
                 n - 1, list_type)

SavedStores ==
    {add_all(add_all(EmptyStore, na, "actual"), nb, "backlog") :
        na \in 0..MaxSavedActual, nb \in 0..MaxSavedBacklog}

\* -------------------------------------------------- one device, no session
\* Storage::new() without a token file: init_drive fails, use_drive is
\* false and data is what load_local reads from reminders.json.
Init ==
    /\ disk \in [Devices -> SavedStores]
    /\ disk[2] = EmptyStore
    /\ data = disk
    /\ cloud = EmptyStore
    /\ use_drive = [d \in Devices |-> FALSE]
    /\ now = 0
    /\ cmds = 0
    /\ op = OpRec("new", 0, 0, "", 0, "ok")
    /\ merged = EmptyStore
    /\ session = [d \in Devices |-> NoSession]
    /\ files = [d \in Devices |-> NoFiles]
    /\ calls = NoCalls
    /\ listener = IdleListener
    /\ snap = [d \in Devices |-> SavedFile]
    /\ lock = FreeLock

Command ==
    \/ /\ next_id(data[1]) <= MaxId
       /\ \E m \in Messages, u \in UrgencyInputs, l \in ListTypes :
              AddReminder(1, m, u, l, "ok", AnswersOk)
    \/ \E id \in Ids, m \in Messages, u \in UrgencyInputs :
           UpdateReminder(1, id, m, u, "ok", AnswersOk)
    \/ \E id \in Ids, l \in ListTypes : MoveReminder(1, id, l, "ok")
    \/ \E id \in Ids, u \in UrgencyInputs : SetUrgency(1, id, u, "ok")
    \/ \E id \in Ids : DeleteReminder(1, id, "ok", AnswersOk)
    \/ \E id \in Ids : CompleteReminder(1, id, "ok", AnswersOk)
    \/ \E id \in Ids : UncompleteReminder(1, id, "ok", AnswersOk)
    \/ \E ids \in IdLists : ReorderReminders(1, ids, "ok")

Next ==
    \/ cmds < MaxCmds /\ Command /\ UNCHANGED lock
    \/ Tick

Spec == Init /\ [][Next]_vars

\* ------------------------------------------ merge_stores on drawn inputs
\* Largest id in the stores handed to merge_stores.
MaxMergeId == 2

\* The strings a timestamp field can hold: three RFC 3339 texts, <<2, 1>>
\* spelling the instant of <<1, 0>> with another offset, and one string
\* that does not parse.
Stamps == {<<1, 0>>, <<2, 0>>, <<2, 1>>, <<>>}

stored(id, message, created_at, completed_at) ==
    [id |-> id, message |-> message, urgency |-> "today",
     list_type |-> "actual", created_at |-> created_at,
     is_completed |-> completed_at.some, completed_at |-> completed_at,
     sort_order |-> 0]

\* what a store can hold under one id: nothing, a pending reminder or a
\* completed one
\* (the last pending copy carries a completed_at, as a hand-written or
\* foreign snapshot can)
PendingCopies(id) ==
    {stored(id, m, c, None) : m \in Messages, c \in Stamps}
    \cup {[stored(id, "b", <<1, 0>>, Some(<<3, 0>>)) EXCEPT !.is_completed = FALSE]}
CompletedCopies(id) ==
    {stored(id, m, <<1, 0>>, Some(<<2, 0>>)) : m \in Messages}
Slots(id) ==
    {[list |-> "none"]}
    \cup {[list |-> "pending", r |-> r] : r \in PendingCopies(id)}
    \cup {[list |-> "completed", r |-> r] : r \in CompletedCopies(id)}

RECURSIVE slots_of(_, _, _)
slots_of(f, id, list) ==
    IF id > MaxMergeId THEN <<>>
    ELSE (IF f[id].list = list THEN <<f[id].r>> ELSE <<>>)
         \o slots_of(f, id + 1, list)

\* stores that hold every id at most once
MergeInputs ==
    {[pending |-> slots_of(f, 1, "pending"),
      completed |-> slots_of(f, 1, "completed")] :
        f \in {g \in [1..MaxMergeId -> UNION {Slots(id) : id \in 1..MaxMergeId}] :
                  \A id \in 1..MaxMergeId : g[id] \in Slots(id)}}

InitMerge ==
    /\ data \in [Devices -> MergeInputs]
    /\ data[2] = EmptyStore
    /\ cloud \in MergeInputs
    /\ disk = data
    /\ use_drive = [d \in Devices |-> FALSE]
    /\ now = 0
    /\ cmds = 0
    /\ op = OpRec("new", 0, 0, "", 0, "ok")
    /\ merged = EmptyStore
    /\ session = [d \in Devices |-> NoSession]
    /\ files = [d \in Devices |-> NoFiles]
    /\ calls = NoCalls
    /\ listener = IdleListener
    /\ snap = [d \in Devices |-> SavedFile]
    /\ lock = FreeLock

NextMerge == MergeStores

SpecMerge == InitMerge /\ [][NextMerge]_vars

\* ------------------------------------------- two devices sharing one cloud
\* Commands executed in one run of the two devices.
MaxSyncCmds == 3
\* Largest id a device hands out in such a run.
MaxSyncId == 2

\* the network answers, or fails with something other than a 401 and refuses
\* the token refresh
CloudOutcomes == {AnswersOk, AnswersError}

\* Both Storage instances were constructed with a token file: init_drive
\* loaded the same snapshot on each, found the Drive object holding it and
\* set use_drive.
InitSync ==
    /\ \E common \in {EmptyStore, add_all(EmptyStore, 1, "actual")} :
        /\ data = [d \in Devices |-> common]
        /\ cloud = common
    /\ disk = data
    /\ use_drive = [d \in Devices |-> TRUE]
    /\ now = 0
    /\ cmds = 0
    /\ op = OpRec("new", 0, 0, "", 0, "ok")
    /\ merged = EmptyStore
    /\ session = [d \in Devices |-> LoadedSession(TokenFile(Some("r")))]
    /\ files = [d \in Devices |-> LoggedInFiles]
    /\ calls = NoCalls
    /\ listener = IdleListener
    /\ snap = [d \in Devices |-> SavedFile]
    /\ lock = FreeLock

SyncIds == 1..MaxSyncId
SyncIdLists == UNION {[1..n -> SyncIds] : n \in 0..MaxReorder}

SyncCommand(d) ==
    \/ /\ next_id(data[d]) <= MaxSyncId
       /\ \E m \in Messages, u \in UrgencyInputs, l \in ListTypes, cio \in CloudOutcomes :
              AddReminder(d, m, u, l, "ok", cio)
    \/ \E id \in SyncIds, m \in Messages, u \in UrgencyInputs, cio \in CloudOutcomes :
           UpdateReminder(d, id, m, u, "ok", cio)
    \/ \E id \in SyncIds, l \in ListTypes : MoveReminder(d, id, l, "ok")
    \/ \E id \in SyncIds, u \in UrgencyInputs : SetUrgency(d, id, u, "ok")
    \/ \E id \in SyncIds, cio \in CloudOutcomes : DeleteReminder(d, id, "ok", cio)
    \/ \E id \in SyncIds, cio \in CloudOutcomes : CompleteReminder(d, id, "ok", cio)
    \/ \E id \in SyncIds, cio \in CloudOutcomes : UncompleteReminder(d, id, "ok", cio)
    \/ \E ids \in SyncIdLists : ReorderReminders(d, ids, "ok")
    \/ \E ld \in CloudOutcomes, cio \in CloudOutcomes : RefreshFromCloud(d, ld, cio, "ok")
    \/ \E cio \in CloudOutcomes : SyncToCloud(d, cio)

NextSync ==
    \/ /\ cmds < MaxSyncCmds
       /\ \E d \in Devices : SyncCommand(d)
       /\ UNCHANGED lock
    \/ Tick

SpecSync == InitSync /\ [][NextSync]_vars

\* --------------------------------------------- a migrated legacy snapshot
\* Largest number of reminders in a legacy snapshot.
MaxLegacy == 8

\* Readings of the clock in one hour.
TicksPerHour == 2

\* Duration::num_hours: the whole hours of a duration of d clock readings,
\* rounded toward zero
num_hours(d) ==
    IF d >= 0 THEN d \div TicksPerHour ELSE -((-d) \div TicksPerHour)

\* migrate_legacy_reminder at clock reading t
migrate_legacy_reminder(legacy, t) ==
    LET due == parse_from_rfc3339(legacy.due_time)
        hours_until == num_hours(due.inst - t)
    IN  [id |-> legacy.id, message |-> legacy.message,
         urgency |-> IF ~due.ok THEN "whenever"
                     ELSE IF hours_until <= 1 THEN "now"
                     ELSE IF hours_until <= 24 THEN "today"
                     ELSE IF hours_until <= 168 THEN "soon"
                     ELSE "whenever",
         list_type |-> "actual", created_at |-> legacy.created_at,
         is_completed |-> legacy.is_completed,
         completed_at |-> legacy.completed_at,
         sort_order |-> legacy.sort_order]

\* a legacy snapshot of n pending reminders, in display order
LegacyPending(n) ==
    [i \in 1..n |->
        [id |-> i, message |-> "a", due_time |-> to_rfc3339(0),
         created_at |-> to_rfc3339(0), is_completed |-> FALSE,
         completed_at |-> None, sort_order |-> i - 1]]

\* try_migrate_legacy_data on such a snapshot
MigratedStores ==
    {[pending |-> [i \in 1..n |-> migrate_legacy_reminder(LegacyPending(n)[i], 0)],
      completed |-> <<>>] : n \in 1..MaxLegacy}

\* Storage::new() without a token file, on the snapshot of an earlier run
\* or on a legacy snapshot, which load_local migrates and saves
InitLoaded ==
    /\ disk \in [Devices -> SavedStores \cup MigratedStores]
    /\ disk[2] = EmptyStore
    /\ data = disk
    /\ cloud = EmptyStore
    /\ use_drive = [d \in Devices |-> FALSE]
    /\ now = 0
    /\ cmds = 0
    /\ op = OpRec("new", 0, 0, "", 0, "ok")
    /\ merged = EmptyStore
    /\ session = [d \in Devices |-> NoSession]
    /\ files = [d \in Devices |-> NoFiles]
    /\ calls = NoCalls
    /\ listener = IdleListener
    /\ snap = [d \in Devices |-> SavedFile]
    /\ lock = FreeLock

SpecLoaded == InitLoaded /\ [][Next]_vars

\* ------------------------- two devices that only add, and refresh
NextDiverge ==
    \/ /\ cmds < MaxSyncCmds
       /\ \E d \in Devices :
            \/ /\ next_id(data[d]) <= MaxSyncId
               /\ \E m \in Messages, u \in UrgencyInputs, l \in ListTypes,
                     cio \in CloudOutcomes :
                      AddReminder(d, m, u, l, "ok", cio)
            \/ \E ld \in CloudOutcomes, cio \in CloudOutcomes :
                   RefreshFromCloud(d, ld, cio, "ok")
       /\ UNCHANGED lock
    \/ Tick

SpecDiverge == InitSync /\ [][NextDiverge]_vars

\* ------------------------------------ one device adds, deletes, refreshes
\* Device 1 alone changes its store and the Drive object; device 2 stays as
\* it started.
NextAlone ==
    \/ /\ cmds < MaxSyncCmds
       /\ \/ /\ next_id(data[1]) <= MaxSyncId
             /\ \E l \in ListTypes, cio \in CloudOutcomes :
                    AddReminder(1, "a", "now", l, "ok", cio)
          \/ \E id \in SyncIds, cio \in CloudOutcomes :
                 DeleteReminder(1, id, "ok", cio)
          \/ \E id \in SyncIds, cio \in CloudOutcomes :
                 CompleteReminder(1, id, "ok", cio)
          \/ \E ld \in CloudOutcomes, cio \in CloudOutcomes :
                 RefreshFromCloud(1, ld, cio, "ok")
       /\ UNCHANGED lock
    \/ Tick

SpecAlone == InitSync /\ [][NextAlone]_vars

\* ------------------------------------------- one device and its session
\* Commands executed in one run of the device.
MaxSessionCmds == 2

IOOutcomes == {"ok", "fail"}
NetAnswers ==
    {Answers(first, refresh, second) :
        first \in {"ok", "expired", "error"}, refresh \in {"ok", "fail"},
        second \in {"ok", "error"}}

\* Storage::new() on device 1, without a token file or with one (granted a
\* refresh token or not): in the second case init_drive has merged the
\* snapshot with the Drive object and saved both. Another device may have
\* written the Drive object since.
InitSession ==
    /\ \E common \in {EmptyStore, add_all(EmptyStore, 1, "actual")},
          tf \in {None, Some(TokenFile(None)), Some(TokenFile(Some("r")))},
          credentials \in BOOLEAN :
        /\ data = [d \in Devices |-> IF d = 1 THEN common ELSE EmptyStore]
        /\ cloud \in {common, add_all(EmptyStore, 2, "backlog")}
        /\ use_drive = [d \in Devices |-> d = 1 /\ tf.some]
        /\ session = [d \in Devices |->
                        IF d = 1 /\ tf.some THEN LoadedSession(tf.val)
                        ELSE NoSession]
        /\ files = [d \in Devices |->
                      IF d = 1 THEN [token |-> tf, credentials |-> credentials]
                      ELSE NoFiles]
    /\ disk = data
    /\ now = 0
    /\ cmds = 0
    /\ op = OpRec("new", 0, 0, "", 0, "ok")
    /\ merged = EmptyStore
    /\ calls = NoCalls
    /\ listener = IdleListener
    /\ snap = [d \in Devices |-> SavedFile]
    /\ lock = FreeLock

SessionCommand ==
    \/ /\ next_id(data[1]) <= MaxSyncId
       /\ \E m \in Messages, l \in ListTypes, lio \in IOOutcomes,
             cio \in NetAnswers :
              AddReminder(1, m, "now", l, lio, cio)
    \/ \E id \in SyncIds, lio \in IOOutcomes, cio \in NetAnswers :
           CompleteReminder(1, id, lio, cio)
    \/ \E ld \in NetAnswers, cio \in NetAnswers, lio \in IOOutcomes :
           RefreshFromCloud(1, ld, cio, lio)
    \/ \E cio \in NetAnswers : SyncToCloud(1, cio)
    \/ \E rio \in IOOutcomes : DisconnectDrive(1, rio)

NextSession ==
    \/ cmds < MaxSessionCmds /\ SessionCommand /\ UNCHANGED lock
    \/ Tick

SpecSession == InitSession /\ [][NextSession]_vars

\* --------------------------------------------------- the callback listener
\* Connections the listener answers in one run.
MaxConns == 2
\* Longest tail of a request path, in atoms.
MaxTail == 4

\* A text is the sequence of its atoms: the delimiters, the word code and x
\* for any other run of characters.
Atoms == {"?", "&", "=", "code", "x"}
Tails == UNION {[1..n -> Atoms] : n \in 0..MaxTail}
Paths == {h \o t : h \in {<<>>, <<"/">>, <<"/", "?">>, <<"/", "x", "?">>},
                    t \in Tails}
\* A request is the sequence of its lines, a line the sequence of its
\* whitespace-separated words: no line at all, a line of one word, a POST
\* of a code, or a GET request line with a path.
Requests ==
    {<<>>, << <<"GET">> >>,
     << <<"POST", <<"/", "?", "code", "=", "x">>, "HTTP/1.1">> >>}
    \cup {<< <<"GET", path, "HTTP/1.1">> >> : path \in Paths}

\* str::split(sep): the segments between the separators, at least one
RECURSIVE split(_, _)
split(text, sep) ==
    IF \A i \in 1..Len(text) : text[i] # sep THEN <<text>>
    ELSE LET k == MinOf({i \in 1..Len(text) : text[i] = sep})
         IN  <<SubSeq(text, 1, k - 1)>>
             \o split(SubSeq(text, k + 1, Len(text)), sep)

\* |param| { parts = param.split('='); if parts.next() == Some("code")
\* { parts.next() } else { None } }
code_of_param(param) ==
    LET parts == split(param, "=")
    IN  IF parts[1] = <<"code">> /\ Len(parts) >= 2 THEN Some(parts[2]) ELSE None

\* find_map over query.split('&')
RECURSIVE find_code(_)
find_code(params) ==
    IF params = <<>> THEN None
    ELSE IF code_of_param(Head(params)).some THEN code_of_param(Head(params))
    ELSE find_code(Tail(params))

\* the closure of wait_for_oauth_callback that parses the code
parse_code(request) ==
    IF request = <<>> THEN None
    ELSE IF Len(request[1]) < 2 THEN None
    ELSE LET path == request[1][2]
         IN  IF ~(Len(path) >= 2 /\ path[1] = "/" /\ path[2] = "?") THEN None
             ELSE find_code(split(split(path, "?")[2], "&"))

\* the bind loop: fails binds fail before one succeeds
BindListener(fails) ==
    /\ listener.state = "idle"
    /\ listener' = [listener EXCEPT
            !.state = IF fails > BIND_RETRIES THEN "failed" ELSE "accepting",
            !.binds = IF fails > BIND_RETRIES THEN BIND_RETRIES + 1 ELSE fails + 1]
    /\ UNCHANGED <<data, disk, cloud, use_drive, now, cmds, op, merged,
                   session, files, calls, snap, lock>>

\* listener.accept()? and stream.read(&mut buffer)?: aio and rio are the
\* outcomes of the two calls
AcceptConnection(aio, rio, request) ==
    /\ listener.state = "accepting"
    /\ listener.conns < MaxConns
    /\ listener' = IF aio = "ok" /\ rio = "ok"
                    THEN [listener EXCEPT !.state = "parsing",
                                          !.request = request]
                    ELSE [listener EXCEPT !.state = "failed"]
    /\ UNCHANGED <<data, disk, cloud, use_drive, now, cmds, op, merged,
                   session, files, calls, snap, lock>>

\* the rest of the loop body: parse the request and answer it
AnswerConnection ==
    /\ listener.state = "parsing"
    /\ LET code == parse_code(listener.request)
       IN  listener' = IF code.some
                       THEN [listener EXCEPT !.state = "returned",
                                !.request = <<>>, !.reply = "200",
                                !.code = code, !.conns = @ + 1]
                       ELSE [listener EXCEPT !.state = "accepting",
                                !.request = <<>>, !.reply = "404",
                                !.conns = @ + 1]
    /\ UNCHANGED <<data, disk, cloud, use_drive, now, cmds, op, merged,
                   session, files, calls, snap, lock>>

\* complete_oauth_flow_blocking has just been called on a Storage without
\* a session
InitListen ==
    /\ data = [d \in Devices |-> EmptyStore]
    /\ disk = data
    /\ cloud = EmptyStore
    /\ use_drive = [d \in Devices |-> FALSE]
    /\ now = 0
    /\ cmds = 0
    /\ op = OpRec("new", 0, 0, "", 0, "ok")
    /\ merged = EmptyStore
    /\ session = [d \in Devices |-> NoSession]
    /\ files = [d \in Devices |-> [token |-> None, credentials |-> TRUE]]
    /\ calls = NoCalls
    /\ listener = IdleListener
    /\ snap = [d \in Devices |-> SavedFile]
    /\ lock = FreeLock

NextListen ==
    \/ \E fails \in 0..(BIND_RETRIES + 1) : BindListener(fails)
    \/ \E aio \in IOOutcomes, rio \in IOOutcomes, request \in Requests :
           AcceptConnection(aio, rio, request)
    \/ AnswerConnection

SpecListen == InitListen /\ [][NextListen]_vars

\* ----------------------------------------------------- Storage::new()
\* The outcomes of the file operations of one load_local: fs::read_to_string
\* of reminders.json, fs::write of the backup, fs::write of save_local.
LoadIOs == [read : IOOutcomes, backup : IOOutcomes, write : IOOutcomes]

\* try_migrate_legacy_data(content, Some(backup_path)) at clock reading t:
\* the migrated store, and whether the backup was written
try_migrate_legacy_data(content, t, bio) ==
    IF content.kind = "legacy"
    THEN [migrated |->
            Some([pending |->
                    [i \in DOMAIN content.legacy.pending |->
                        migrate_legacy_reminder(content.legacy.pending[i], t)],
                  completed |->
                    [i \in DOMAIN content.legacy.completed |->
                        migrate_legacy_reminder(content.legacy.completed[i], t)]]),
          backed_up |-> bio = "ok"]
    ELSE [migrated |-> None, backed_up |-> FALSE]

\* load_local on a reminders.json holding file.content (store, when the
\* content is in the current schema): whether it returned Ok, the store it
\* returned, and what it leaves in reminders.json and in the backup
load_local(store, file, t, io) ==
    LET m == try_migrate_legacy_data(file.content, t, io.backup)
        backed == IF m.backed_up
                  THEN [file EXCEPT !.backup = Some(file.content)] ELSE file
        result(ok, d, s, f) == [ok |-> ok, data |-> d, disk |-> s, snap |-> f]
    IN  IF file.content.kind = "absent"
        THEN result(TRUE, EmptyStore, store, file)
        ELSE IF io.read # "ok"
        THEN result(FALSE, EmptyStore, store, file)
        ELSE IF file.content.kind = "current"
        THEN result(TRUE, store, store, file)
        ELSE IF m.migrated.some
        THEN IF io.write = "ok"
             THEN result(TRUE, m.migrated.val, m.migrated.val,
                         [backed EXCEPT !.content = CurrentContent])
             ELSE result(FALSE, EmptyStore, store, backed)
        ELSE result(TRUE, EmptyStore, store, file)

\* drive::find_or_create_drive_file with the refresh and retry of init_drive,
\* the Drive object existing: fnd holds the answers of the network
find_drive_file(sess, f, fnd) ==
    IF fnd.first = "ok"
    THEN [ok |-> TRUE, sess |-> [sess EXCEPT !.file_id = Some("file")], f |-> f,
          log |-> <<Event("find", "ok")>>]
    ELSE IF fnd.first = "expired"
    THEN LET r == refresh_access_token(sess, f, fnd.refresh)
         IN  IF r.ok /\ fnd.second = "ok"
             THEN [ok |-> TRUE, sess |-> [r.sess EXCEPT !.file_id = Some("file")],
                   f |-> r.f,
                   log |-> <<Event("find", "expired"), Event("refresh", "ok"),
                             Event("find", "ok")>>]
             ELSE [ok |-> FALSE, sess |-> r.sess, f |-> r.f,
                   log |-> <<Event("find", "expired"),
                             Event("refresh", IF r.ok THEN "ok" ELSE "fail")>>]
    ELSE [ok |-> FALSE, sess |-> sess, f |-> f, log |-> <<Event("find", "error")>>]

\* init_drive on device d: every state it can leave. io are the outcomes of
\* the file operations of its load_local, fnd, ld and cio the answers of the
\* network to the search, the load and the upload, lio the outcome of the
\* fs::write of its save_local.
init_drive(d, io, fnd, ld, cio, lio) ==
    LET first == load_local(disk[d], snap[d], now, io)
        mem == IF first.ok THEN first.data ELSE data[d]
        tf == files[d].token
        sess1 == [session[d] EXCEPT
                     !.access_token = Some(tf.val.token),
                     !.refresh_token = tf.val.refresh_token,
                     !.client_id = tf.val.client_id,
                     !.client_secret = tf.val.client_secret,
                     !.folder_id = Some("folder")]
        found == find_drive_file(sess1, files[d], fnd)
        ldr == load_with_retry(found.sess, found.f, ld)
        up == save_to_drive(ldr.sess, ldr.f, cio)
        left(ok, mem2, store, file, cl, sess, f, drive, log) ==
            [ok |-> ok, data |-> mem2, disk |-> store, snap |-> file,
             cloud |-> cl, sess |-> sess, f |-> f, use_drive |-> drive,
             log |-> log]
    IN  IF ~tf.some
        THEN {left(FALSE, mem, first.disk, first.snap, cloud, session[d],
                   files[d], use_drive[d], NoCalls)}
        ELSE IF ~found.ok
        THEN {left(FALSE, mem, first.disk, first.snap, cloud, found.sess,
                   found.f, TRUE, found.log)}
        ELSE IF ~ldr.ok
        THEN {left(FALSE, mem, first.disk, first.snap, cloud, ldr.sess, ldr.f,
                   TRUE, found.log \o ldr.log)}
        ELSE {left(TRUE, s2,
                   IF lio = "ok" THEN s2 ELSE first.disk,
                   IF lio = "ok"
                   THEN [first.snap EXCEPT !.content = CurrentContent]
                   ELSE first.snap,
                   IF up.ok THEN s2 ELSE cloud, up.sess, up.f, TRUE,
                   found.log \o ldr.log \o up.log) :
                s2 \in load_from_drive(mem, cloud)}

\* Storage::new() on device d; io2 are the outcomes of the file operations
\* of the load_local it calls when init_drive failed. A failed construction
\* leaves no Storage (ret "err_local").
StorageNew(d, io, io2, fnd, ld, cio, lio) ==
    /\ op.name = "off"
    /\ \E r \in init_drive(d, io, fnd, ld, cio, lio) :
         LET second == load_local(r.disk, r.snap, now, io2)
         IN  /\ data' = [data EXCEPT ![d] = IF r.ok THEN r.data
                                            ELSE IF second.ok THEN second.data
                                            ELSE EmptyStore]
             /\ disk' = [disk EXCEPT ![d] = IF r.ok THEN r.disk ELSE second.disk]
             /\ snap' = [snap EXCEPT ![d] = IF r.ok THEN r.snap ELSE second.snap]
             /\ cloud' = r.cloud
             /\ session' = [session EXCEPT ![d] = r.sess]
             /\ files' = [files EXCEPT ![d] = r.f]
             /\ use_drive' = [use_drive EXCEPT ![d] = r.ok]
             /\ calls' = r.log
             /\ op' = OpRec("new", d, 0, "", 0,
                            IF r.ok \/ second.ok THEN "ok" ELSE "err_local")
    /\ UNCHANGED <<now, cmds, merged, listener, lock>>

\* Commands executed in one run after Storage::new().
MaxStartCmds == 1

\* The legacy snapshots: one pending LegacyReminder due at a clock reading
\* around the hour, the day or the week, or at a string that is no
\* timestamp, and one snapshot that also holds a completed reminder.
LegacyStores ==
    LET Legacy(id, due_time, done) ==
            [id |-> id, message |-> "a", due_time |-> due_time,
             created_at |-> to_rfc3339(0), is_completed |-> done,
             completed_at |-> IF done THEN Some(to_rfc3339(0)) ELSE None,
             sort_order |-> 0]
        DueTicks ==
            {0, TicksPerHour, TicksPerHour + 1, 2 * TicksPerHour,
             24 * TicksPerHour, 24 * TicksPerHour + 1,
             168 * TicksPerHour, 168 * TicksPerHour + 1, 169 * TicksPerHour}
        LegacyDues == {to_rfc3339(k) : k \in DueTicks} \cup {<<>>}
    IN  {[pending |-> <<Legacy(id, due, FALSE)>>, completed |-> <<>>] :
            id \in {1, 3}, due \in LegacyDues}
        \cup {[pending |-> <<Legacy(1, to_rfc3339(0), FALSE)>>,
               completed |-> <<Legacy(2, <<>>, TRUE)>>]}

\* What the program finds in reminders.json when it starts.
StartFiles ==
    {[store |-> EmptyStore, content |-> Content(kind, EmptyStore)] :
        kind \in {"absent", "garbage"}}
    \cup {[store |-> s, content |-> CurrentContent] :
            s \in {EmptyStore, add_all(EmptyStore, 1, "actual")}}
    \cup {[store |-> EmptyStore, content |-> Content("legacy", l)] :
            l \in LegacyStores}

\* Device 1 before Storage::new(), with a token file or without one.
InitStartup ==
    /\ \E sf \in StartFiles, tf \in {None, Some(TokenFile(Some("r")))} :
        /\ disk = [d \in Devices |-> IF d = 1 THEN sf.store ELSE EmptyStore]
        /\ snap = [d \in Devices |->
                     [content |-> IF d = 1 THEN sf.content
                                  ELSE Content("absent", EmptyStore),
                      backup |-> None]]
        /\ files = [d \in Devices |->
                      IF d = 1 THEN [token |-> tf, credentials |-> TRUE]
                      ELSE NoFiles]
    /\ data = [d \in Devices |-> EmptyStore]
    /\ cloud \in {EmptyStore, add_all(EmptyStore, 2, "backlog")}
    /\ use_drive = [d \in Devices |-> FALSE]
    /\ session = [d \in Devices |-> NoSession]
    /\ now = 0
    /\ cmds = 0
    /\ op = OpRec("off", 0, 0, "", 0, "ok")
    /\ merged = EmptyStore
    /\ calls = NoCalls
    /\ listener = IdleListener
    /\ lock = FreeLock

\* Storage::new(), then commands once it has returned a Storage
NextStartup ==
    \/ \E io \in LoadIOs, io2 \in LoadIOs,
          fnd \in {AnswersOk, AnswersError, Answers("expired", "ok", "ok"),
                   Answers("expired", "fail", "ok")},
          ld \in CloudOutcomes, cio \in CloudOutcomes, lio \in IOOutcomes :
           StorageNew(1, io, io2, fnd, ld, cio, lio)
    \/ /\ op.name # "off" /\ ~(op.name = "new" /\ op.ret # "ok")
       /\ cmds < MaxStartCmds
       /\ \E l \in ListTypes, cio \in CloudOutcomes :
              AddReminder(1, "a", "now", l, "ok", cio)
       /\ UNCHANGED lock
    \/ Tick

SpecStartup == InitStartup /\ [][NextStartup]_vars

\* --------------------------------- one device, a reminder completed
\* The snapshot of an earlier run that added to Actual and to Backlog and
\* then completed its first or its last reminder.
InitDone ==
    /\ \E na \in {MAX_ACTUAL_TASKS - 1, MAX_ACTUAL_TASKS}, nb \in {0, 2},
          last \in BOOLEAN :
            disk = [d \in Devices |->
                      IF d = 1
                      THEN complete_reminder(
                               add_all(add_all(EmptyStore, na, "actual"),
                                       nb, "backlog"),
                               IF last THEN na + nb ELSE 1, 0)
                      ELSE EmptyStore]
    /\ data = disk
    /\ cloud = EmptyStore
    /\ use_drive = [d \in Devices |-> FALSE]
    /\ now = 0
    /\ cmds = 0
    /\ op = OpRec("new", 0, 0, "", 0, "ok")
    /\ merged = EmptyStore
    /\ session = [d \in Devices |-> NoSession]
    /\ files = [d \in Devices |-> NoFiles]
    /\ calls = NoCalls
    /\ listener = IdleListener
    /\ snap = [d \in Devices |-> SavedFile]
    /\ lock = FreeLock

SpecDone == InitDone /\ [][Next]_vars

\* ------------------------------ two devices with a full Actual list each
\* Both devices hold MAX_ACTUAL_TASKS reminders in Actual, synchronized with
\* the Drive object. Device 1 adds to Actual; device 2 refreshes once the
\* Drive object differs from its store.
InitCrowded ==
    /\ data = [d \in Devices |-> add_all(EmptyStore, MAX_ACTUAL_TASKS, "actual")]
    /\ disk = data
    /\ cloud = data[1]
    /\ use_drive = [d \in Devices |-> TRUE]
    /\ session = [d \in Devices |-> LoadedSession(TokenFile(Some("r")))]
    /\ files = [d \in Devices |-> LoggedInFiles]
    /\ now = 0
    /\ cmds = 0
    /\ op = OpRec("new", 0, 0, "", 0, "ok")
    /\ merged = EmptyStore
    /\ calls = NoCalls
    /\ listener = IdleListener
    /\ snap = [d \in Devices |-> SavedFile]
    /\ lock = FreeLock

NextCrowded ==
    \/ /\ next_id(data[1]) <= MAX_ACTUAL_TASKS + 1
       /\ AddReminder(1, "a", "now", "actual", "ok", AnswersOk)
       /\ UNCHANGED lock
    \/ /\ cloud # data[2]
       /\ RefreshFromCloud(2, AnswersOk, AnswersOk, "ok")
       /\ UNCHANGED lock
    \/ Tick

SpecCrowded == InitCrowded /\ [][NextCrowded]_vars

\* ------------------------------------------- commands under the Mutex
\* Commands entered in one run.
MaxLockCmds == 2

\* a lock_storage that returns while another task holds the Mutex
lock_storage_without_wait(t) == TRUE

\* state.lock_storage() returns to task t: no other task holds the Mutex
lock_storage(t) == lock.holder = 0

\* task t holds the MutexGuard from pc on; it drops the guard and goes to pc
take(t, pc) ==
    [holder |-> t, pc |-> [lock.pc EXCEPT ![t] = pc],
     seen |-> [lock.seen EXCEPT ![t] = Some(data[1])]]
drop(t, pc) ==
    [holder |-> IF lock.holder = t THEN 0 ELSE lock.holder,
     pc |-> [lock.pc EXCEPT ![t] = pc],
     seen |-> [lock.seen EXCEPT ![t] = None]]

\* a command wrapper: let mut storage = state.lock_storage();
EnterCommand(t) ==
    /\ cmds < MaxLockCmds
    /\ lock.pc[t] = "idle"
    /\ lock_storage(t)
    /\ lock' = take(t, "command")
    /\ UNCHANGED <<data, disk, cloud, use_drive, now, cmds, op, merged,
                   session, files, calls, listener, snap>>

\* the Storage method the wrapper called has reached refresh_access_token
StartRefresh(t) ==
    /\ lock.pc[t] = "command"
    /\ use_drive[1]
    /\ lock' = [lock EXCEPT !.pc[t] = "refreshing"]
    /\ UNCHANGED <<data, disk, cloud, use_drive, now, cmds, op, merged,
                   session, files, calls, listener, snap>>

\* the Storage method returns and the wrapper drops the guard
LeaveCommand(t) ==
    /\ lock.pc[t] \in {"command", "refreshing"}
    /\ \/ /\ next_id(data[1]) <= MaxSyncId
          /\ \E l \in ListTypes,
                cio \in {AnswersOk, AnswersError, Answers("expired", "ok", "ok")} :
                 AddReminder(1, "a", "now", l, "ok", cio)
       \/ \E id \in SyncIds, l \in ListTypes : MoveReminder(1, id, l, "ok")
       \/ \E cio \in {AnswersOk, AnswersError, Answers("expired", "ok", "ok")} :
              SyncToCloud(1, cio)
    /\ lock.pc[t] = "refreshing" <=>
            \E i \in 1..Len(calls') : calls'[i].call = "refresh"
    /\ lock' = drop(t, "idle")

\* start_oauth_flow: the block that reads the URL and the path
StartOAuthFlow(t) ==
    /\ cmds < MaxLockCmds
    /\ lock.pc[t] = "idle"
    /\ files[1].credentials
    /\ lock_storage(t)
    /\ lock' = take(t, "flow_url")
    /\ UNCHANGED <<data, disk, cloud, use_drive, now, cmds, op, merged,
                   session, files, calls, listener, snap>>

\* start_oauth_flow: the block ends, the browser opens, the task awaits
\* spawn_blocking(complete_oauth_flow_blocking)
FlowWait(t) ==
    /\ lock.pc[t] = "flow_url"
    /\ lock' = drop(t, "flow_wait")
    /\ UNCHANGED <<data, disk, cloud, use_drive, now, cmds, op, merged,
                   session, files, calls, listener, snap>>

\* complete_oauth_flow_blocking returns: Ok after save_oauth_tokens wrote
\* token.json, or Err, which start_oauth_flow returns
FlowComplete(t, ok) ==
    /\ lock.pc[t] = "flow_wait"
    /\ files' = IF ok
                THEN [files EXCEPT ![1].token = Some(TokenFile(Some("r")))]
                ELSE files
    /\ lock' = [lock EXCEPT !.pc[t] = IF ok THEN "flow_saved" ELSE "idle"]
    /\ UNCHANGED <<data, disk, cloud, use_drive, now, cmds, op, merged,
                   session, calls, listener, snap>>

\* start_oauth_flow: let mut storage = state.lock_storage(); after the flow
FlowEnterReload(t) ==
    /\ lock.pc[t] = "flow_saved"
    /\ lock_storage(t)
    /\ lock' = take(t, "flow_reload")
    /\ UNCHANGED <<data, disk, cloud, use_drive, now, cmds, op, merged,
                   session, files, calls, listener, snap>>

\* start_oauth_flow: storage.reload_oauth_state()?, which is init_drive
FlowReload(t, fnd, ld) ==
    /\ lock.pc[t] = "flow_reload"
    /\ \E r \in init_drive(1, [read |-> "ok", backup |-> "ok", write |-> "ok"],
                            fnd, ld, AnswersOk, "ok") :
        /\ data' = [data EXCEPT ![1] = r.data]
        /\ disk' = [disk EXCEPT ![1] = r.disk]
        /\ snap' = [snap EXCEPT ![1] = r.snap]
        /\ cloud' = r.cloud
        /\ session' = [session EXCEPT ![1] = r.sess]
        /\ files' = [files EXCEPT ![1] = r.f]
        /\ use_drive' = [use_drive EXCEPT ![1] = r.use_drive]
        /\ calls' = r.log
        /\ op' = OpRec("reload", 1, 0, "", actual_count(data[1].pending),
                       IF r.ok THEN "ok" ELSE "err_cloud")
    /\ cmds' = cmds + 1
    /\ lock' = drop(t, "idle")
    /\ UNCHANGED <<now, merged, listener>>

NextLock ==
    \/ \E t \in Tasks : EnterCommand(t)
    \/ \E t \in Tasks : StartRefresh(t)
    \/ \E t \in Tasks : LeaveCommand(t)
    \/ \E t \in Tasks : StartOAuthFlow(t)
    \/ \E t \in Tasks : FlowWait(t)
    \/ \E t \in Tasks, ok \in BOOLEAN : FlowComplete(t, ok)
    \/ \E t \in Tasks : FlowEnterReload(t)
    \/ \E t \in Tasks, fnd \in CloudOutcomes, ld \in CloudOutcomes :
           FlowReload(t, fnd, ld)

SpecLock == InitSession /\ [][NextLock]_vars

\* ================================================================ claims
\* the reminder a sequence holds under id (the first, as find returns it)
copy_of(seq, id) == seq[position(seq, id)]
has_no_repeat(seq) == Cardinality(IdsOf(seq)) = Len(seq)
\* a store that holds every id at most once
holds_each_id_once(s) ==
    /\ has_no_repeat(s.pending)
    /\ has_no_repeat(s.completed)
    /\ IdsOf(s.pending) \cap IdsOf(s.completed) = {}

\* C1: at the end of every command the number of pending reminders with
\* list_type = Actual is at most MAX_ACTUAL_TASKS (6).
ActualWithinCapacity ==
    \A d \in Devices : actual_count(data[d].pending) <= MAX_ACTUAL_TASKS

\* an add to Actual ran on a full Actual list and left it full
AddedToFullActual ==
    /\ op.name = "add" /\ op.lt = "actual" /\ op.pre = MAX_ACTUAL_TASKS
    /\ actual_count(data[1].pending) = MAX_ACTUAL_TASKS

\* C2: in every store the commands and the merges reach, an id is in at most
\* one of pending and completed, and at most once in that list.
IdInOneListOnce == \A d \in Devices : holds_each_id_once(data[d])

\* a refresh merged a local store with a cloud store that still holds as
\* pending a reminder completed locally, and its upload failed
MergedAStatusConflict ==
    /\ op.name = "refresh" /\ op.lt = "merge" /\ op.ret = "true"
    /\ data[op.dev].pending # <<>>
    /\ \E k \in IdsOf(cloud.pending) : k \in IdsOf(data[op.dev].completed)

\* C3: merge_stores of two stores that hold every id at most once returns a
\* store that holds exactly the ids of its inputs, each once, every id in
\* the list it came from unless it is pending on one side and completed on
\* the other; with disjoint inputs the lists' lengths add up.
MergeKeepsEveryId ==
    op.name = "merge" =>
        LET local == data[1]
            in_pending == IdsOf(local.pending) \cup IdsOf(cloud.pending)
            in_completed == IdsOf(local.completed) \cup IdsOf(cloud.completed)
            local_ids == IdsOf(local.pending) \cup IdsOf(local.completed)
            cloud_ids == IdsOf(cloud.pending) \cup IdsOf(cloud.completed)
        IN  /\ holds_each_id_once(merged)
            /\ IdsOf(merged.pending) \cup IdsOf(merged.completed)
                   = in_pending \cup in_completed
            /\ \A id \in in_pending \ in_completed : id \in IdsOf(merged.pending)
            /\ \A id \in in_completed \ in_pending : id \in IdsOf(merged.completed)
            /\ local_ids \cap cloud_ids = {} =>
                   /\ Len(merged.pending)
                          = Len(local.pending) + Len(cloud.pending)
                   /\ Len(merged.completed)
                          = Len(local.completed) + Len(cloud.completed)

\* merge_stores ran on disjoint stores, each with a reminder the other lacks
MergedDisjointStores ==
    /\ op.name = "merge"
    /\ IdsOf(data[1].pending) = {1} /\ data[1].completed = <<>>
    /\ IdsOf(cloud.pending) = {2} /\ cloud.completed = <<>>
    /\ Len(merged.pending) = 2

\* C4: an id completed in one input of merge_stores and pending in the
\* other is in completed and not in pending in the output.
CompletedWins ==
    op.name = "merge" =>
        \A id \in (IdsOf(data[1].completed) \cap IdsOf(cloud.pending))
                  \cup (IdsOf(cloud.completed) \cap IdsOf(data[1].pending)) :
            /\ id \in IdsOf(merged.completed)
            /\ id \notin IdsOf(merged.pending)

\* merge_stores ran with one status conflict in each direction
MergedStatusConflicts ==
    /\ op.name = "merge"
    /\ 1 \in IdsOf(data[1].completed) /\ 1 \in IdsOf(cloud.pending)
    /\ 2 \in IdsOf(data[1].pending) /\ 2 \in IdsOf(cloud.completed)
    /\ IdsOf(merged.completed) = {1, 2}

\* C5: merge_stores(S, S) has the ids of S in pending and the ids of S in
\* completed.
MergeIdempotent ==
    (op.name = "merge" /\ data[1] = cloud) =>
        /\ IdsOf(merged.pending) = IdsOf(cloud.pending)
        /\ IdsOf(merged.completed) = IdsOf(cloud.completed)

\* merge_stores ran on a store and itself, with both lists in use
MergedWithItself ==
    /\ op.name = "merge" /\ data[1] = cloud
    /\ cloud.pending # <<>> /\ cloud.completed # <<>>
    /\ merged.pending # <<>> /\ merged.completed # <<>>

\* C6: for an id pending in both inputs the output holds the cloud copy
\* when its version timestamp (completed_at if present, else created_at) is
\* strictly later than the local copy's, and the local copy otherwise.
later_version(l, c) ==
    LET l_dt == parse_from_rfc3339(IF l.completed_at.some
                                   THEN l.completed_at.val ELSE l.created_at)
        c_dt == parse_from_rfc3339(IF c.completed_at.some
                                   THEN c.completed_at.val ELSE c.created_at)
    IN  l_dt.ok /\ c_dt.ok /\ c_dt.inst > l_dt.inst

StrictlyLaterCloudCopyWins ==
    op.name = "merge" =>
        \A id \in IdsOf(data[1].pending) \cap IdsOf(cloud.pending) :
            /\ id \in IdsOf(merged.pending)
            /\ copy_of(merged.pending, id) =
                   IF later_version(copy_of(data[1].pending, id),
                                    copy_of(cloud.pending, id))
                   THEN copy_of(cloud.pending, id)
                   ELSE copy_of(data[1].pending, id)

\* merge_stores ran on two different copies of id 1 and took the later cloud
\* copy, and on two copies of id 2 with the same instant and kept the local
MergedNewerAndTiedCopies ==
    /\ op.name = "merge"
    /\ IdsOf(data[1].pending) = {1, 2} /\ IdsOf(cloud.pending) = {1, 2}
    /\ later_version(copy_of(data[1].pending, 1), copy_of(cloud.pending, 1))
    /\ copy_of(merged.pending, 1) = copy_of(cloud.pending, 1)
    /\ copy_of(cloud.pending, 1) # copy_of(data[1].pending, 1)
    /\ copy_of(data[1].pending, 2).created_at = <<1, 0>>
    /\ copy_of(cloud.pending, 2).created_at = <<2, 1>>
    /\ copy_of(cloud.pending, 2).message # copy_of(data[1].pending, 2).message
    /\ copy_of(merged.pending, 2) = copy_of(data[1].pending, 2)

\* C7: when two devices diverge from a common store by add commands only,
\* a merge loses none of the reminders added: every pending reminder of the
\* local store and of the cloud store is in the merged store, with the
\* message, urgency and created_at its add gave it.
same_reminder(q, r) ==
    /\ q.message = r.message
    /\ q.urgency = r.urgency
    /\ q.created_at = r.created_at

NoAddedReminderLost ==
    [][(op'.name = "refresh" /\ op'.lt = "merge") =>
        LET d == op'.dev
            before == {data[d].pending[i] : i \in 1..Len(data[d].pending)}
                      \cup {cloud.pending[i] : i \in 1..Len(cloud.pending)}
            after == {data'[d].pending[i] : i \in 1..Len(data'[d].pending)}
        IN  \A r \in before : \E q \in after : same_reminder(q, r)]_vars

\* C8: when the last command was a modification (update, set_urgency, move
\* or reorder) of a pending reminder on the other device that reached the
\* cloud, a refresh that merges keeps the cloud copy of that reminder.
Modifications == {"update", "set_urgency", "move", "reorder"}

LaterModifiedCloudCopyWins ==
    [][(/\ op.name \in Modifications /\ op.ret = "ok"
        /\ op'.name = "refresh" /\ op'.lt = "merge" /\ op'.dev # op.dev
        /\ cloud = data[op.dev]
        /\ op.id \in IdsOf(cloud.pending)
        /\ op.id \in IdsOf(data[op'.dev].pending)) =>
            /\ op.id \in IdsOf(data'[op'.dev].pending)
            /\ copy_of(data'[op'.dev].pending, op.id)
                   = copy_of(cloud.pending, op.id)]_vars

\* C9: add to Actual with exactly 6 Actual reminders: an Actual reminder of
\* maximum sort_order becomes Backlog with sort_order = (minimum sort_order
\* of the Backlog reminders before the call) - 1, or 0 if there were none;
\* every other Actual reminder's sort_order grows by 1; the new reminder is
\* Actual with sort_order 0.
EvictionOnAddToFullActual ==
    [][(/\ cmds' = cmds + 1
        /\ op'.name = "add" /\ op'.lt = "actual"
        /\ actual_count(data[1].pending) = MAX_ACTUAL_TASKS) =>
            LET p == data[1].pending
                q == data'[1].pending
                top == MaxOf({p[i].sort_order : i \in ActualIdx(p)})
                place == IF BacklogIdx(p) = {} THEN 0
                         ELSE MinOf({p[i].sort_order : i \in BacklogIdx(p)}) - 1
            IN  /\ Len(q) = Len(p) + 1
                /\ q[Len(q)].list_type = "actual"
                /\ q[Len(q)].sort_order = 0
                /\ \E i \in ActualIdx(p) :
                      /\ p[i].sort_order = top
                      /\ q[i] = [p[i] EXCEPT !.list_type = "backlog",
                                            !.sort_order = place]
                      /\ \A j \in ActualIdx(p) \ {i} :
                            q[j] = [p[j] EXCEPT !.sort_order = @ + 1]]_vars

\* C10: delete or complete of an Actual pending reminder: with 6 or more
\* Actual reminders remaining nothing else changes; with fewer and a
\* non-empty Backlog exactly one Backlog reminder, of minimum sort_order,
\* becomes Actual with sort_order = (maximum sort_order of the remaining
\* Actual reminders) + 1, or 0 if none remains.
PromotionOnFreedSlot ==
    [][(/\ op'.name \in {"delete", "complete"}
        /\ op'.id \in IdsOf(data[1].pending)
        /\ copy_of(data[1].pending, op'.id).list_type = "actual") =>
            LET p == data[1].pending
                rest == remove_at(p, position(p, op'.id))
                q == data'[1].pending
                place == IF ActualIdx(rest) = {} THEN 0
                         ELSE MaxOf({rest[i].sort_order : i \in ActualIdx(rest)}) + 1
            IN  IF actual_count(rest) >= MAX_ACTUAL_TASKS THEN q = rest
                ELSE BacklogIdx(rest) # {} =>
                        \E i \in BacklogIdx(rest) :
                            /\ \A j \in BacklogIdx(rest) :
                                   rest[i].sort_order <= rest[j].sort_order
                            /\ q = [rest EXCEPT ![i].list_type = "actual",
                                                ![i].sort_order = place]]_vars

\* a delete of an Actual reminder of the full list promoted the Backlog
\* reminder 7 to the bottom of Actual
PromotedAfterDelete ==
    /\ op.name = "delete" /\ op.pre = MAX_ACTUAL_TASKS /\ cmds = 1
    /\ op.id \notin IdsOf(data[1].pending)
    /\ Len(data[1].pending) = MAX_ACTUAL_TASKS
    /\ actual_count(data[1].pending) = MAX_ACTUAL_TASKS
    /\ 7 \in IdsOf(data[1].pending)
    /\ copy_of(data[1].pending, 7).sort_order = 6

\* C11: add gives the new reminder the id max(ids in pending and
\* completed) + 1, or 1 in an empty store; no reminder of the store has that
\* id at the call; add returns it, and pending then holds exactly one
\* reminder with it.
AddAssignsNextId ==
    [][(cmds' = cmds + 1 /\ op'.name = "add") =>
        LET s == data[op'.dev]
            ids == IdsOf(s.pending) \cup IdsOf(s.completed)
            id == IF ids = {} THEN 1 ELSE MaxOf(ids) + 1
            q == data'[op'.dev].pending
        IN  /\ id \notin ids
            /\ op'.ret = "ok" /\ op'.id = id
            /\ Cardinality({i \in 1..Len(q) : q[i].id = id}) = 1
            /\ IdsOf(q) = IdsOf(s.pending) \cup {id}
            /\ data'[op'.dev].completed = s.completed]_vars

\* an add after the reminder with the largest id was completed
AddedAfterCompletingLargestId ==
    /\ op.name = "add" /\ cmds = 2
    /\ data[1].completed # <<>>
    /\ op.id = MaxOf(IdsOf(data[1].completed)) + 1
    /\ op.id > 2
    /\ \A k \in IdsOf(data[1].pending) : k = op.id \/ k < op.id - 1

\* C12: right after add the new reminder's sort_order is strictly smaller
\* than that of every other pending reminder of its list_type, for an
\* Actual and for a Backlog target.
NewReminderFirstInItsList ==
    [][(cmds' = cmds + 1 /\ op'.name = "add") =>
        LET q == data'[op'.dev].pending
            new == copy_of(q, op'.id)
        IN  /\ new.list_type = op'.lt
            /\ \A i \in 1..Len(q) :
                  (q[i].id # op'.id /\ q[i].list_type = new.list_type)
                      => new.sort_order < q[i].sort_order]_vars

\* an add to Actual next to other Actual reminders, one of them at sort_order
\* 1, and with a reminder in Backlog
AddedAboveOtherActual ==
    /\ op.name = "add" /\ op.lt = "actual"
    /\ actual_count(data[1].pending) > 2
    /\ actual_count(data[1].pending) < MAX_ACTUAL_TASKS
    /\ BacklogIdx(data[1].pending) # {}
    /\ \E i \in ActualIdx(data[1].pending) :
          data[1].pending[i].id # op.id /\ data[1].pending[i].sort_order = 1

\* C13: reorder(ordered_ids) gives every pending reminder listed in
\* ordered_ids its position there as sort_order (its last position, counted
\* from 0, when it is listed more than once), ignores listed ids that are
\* not in pending, and changes nothing else: the sort_order of unlisted
\* reminders, every list_type, message and urgency, and the membership and
\* order of pending and completed stay as they were.
ReorderSetsListedPositions ==
    [][(cmds' = cmds + 1 /\ op'.name = "reorder") =>
        LET ids == op'.ids
            p == data[op'.dev].pending
            q == data'[op'.dev].pending
        IN  /\ Len(q) = Len(p)
            /\ data'[op'.dev].completed = data[op'.dev].completed
            /\ \A i \in 1..Len(p) :
                  /\ [q[i] EXCEPT !.sort_order = 0] = [p[i] EXCEPT !.sort_order = 0]
                  /\ q[i].sort_order =
                        IF \E k \in 1..Len(ids) : ids[k] = p[i].id
                        THEN MaxOf({k \in 1..Len(ids) : ids[k] = p[i].id}) - 1
                        ELSE p[i].sort_order]_vars

\* a reorder that lists an id that is not in pending, then one that is, and
\* leaves other reminders unlisted
ReorderedWithUnknownId ==
    /\ op.name = "reorder" /\ Len(op.ids) = 2
    /\ op.ids[1] \notin IdsOf(data[1].pending)
    /\ op.ids[2] \in IdsOf(data[1].pending)
    /\ copy_of(data[1].pending, op.ids[2]).sort_order = 1
    /\ Len(data[1].pending) >= 3
    /\ \E i \in 1..Len(data[1].pending) :
          data[1].pending[i].id # op.ids[2] /\ data[1].pending[i].sort_order > 1

\* C14: a fully-persisting command (add, update, delete, complete,
\* uncomplete) whose local write succeeds and whose cloud write fails
\* returns the error "Saved locally but cloud sync failed", and it returns
\* that error in no other case; the in-memory store and the local snapshot
\* then both hold the mutation and the cloud object is as it was.
FullSaves == {"add", "update", "delete", "complete", "uncomplete"}

CloudFailureKeepsLocalWrite ==
    [][(cmds' = cmds + 1 /\ op'.name \in FullSaves) =>
        LET d == op'.dev
            id == op'.id
            p == data[d].pending
            q == data'[d].pending
            upload_failed == /\ calls' # <<>>
                             /\ calls'[Len(calls')].result # "ok"
        IN  /\ op'.ret = "err_cloud" <=> upload_failed
            /\ op'.ret = "err_cloud" =>
                /\ disk'[d] = data'[d]
                /\ cloud' = cloud
                /\ op'.name = "add" =>
                      id \in IdsOf(q) /\ id \notin IdsOf(p)
                /\ op'.name = "update" =>
                      /\ id \in IdsOf(p) /\ Len(q) = Len(p)
                      /\ \A i \in 1..Len(p) :
                            /\ p[i].id # id => q[i] = p[i]
                            /\ [q[i] EXCEPT !.message = "", !.urgency = ""]
                                 = [p[i] EXCEPT !.message = "", !.urgency = ""]
                /\ op'.name = "delete" =>
                      id \notin IdsOf(q) \cup IdsOf(data'[d].completed)
                /\ op'.name = "complete" =>
                      /\ id \in IdsOf(p) /\ id \notin IdsOf(q)
                      /\ id \in IdsOf(data'[d].completed)
                /\ op'.name = "uncomplete" =>
                      /\ id \in IdsOf(data[d].completed) /\ id \in IdsOf(q)
                      /\ id \notin IdsOf(data'[d].completed)]_vars

\* a complete whose upload failed: the snapshot holds the reminder as
\* completed, the cloud object still as pending
CompletedLocallyOnly ==
    /\ op.name = "complete" /\ op.ret = "err_cloud"
    /\ op.id \in IdsOf(disk[op.dev].completed)
    /\ op.id \in IdsOf(data[op.dev].completed)
    /\ op.id \in IdsOf(cloud.pending)

\* C15: without a cloud session (use_drive false) sync_to_cloud returns Ok
\* and refresh_from_cloud returns false; neither makes a call, and neither
\* changes the in-memory store, the local snapshot, the cloud object, the
\* session fields or the token and credentials files.
NoSessionSyncAndRefreshAreNoOps ==
    [][(/\ cmds' = cmds + 1 /\ op'.name \in {"sync", "refresh"}
        /\ ~use_drive[op'.dev]) =>
            /\ op'.ret = IF op'.name = "sync" THEN "ok" ELSE "false"
            /\ calls' = NoCalls
            /\ UNCHANGED <<data, disk, cloud, use_drive, session, files>>]_vars

\* a refresh after a disconnect, with a cloud object that differs from the
\* store
RefreshedWithoutSession ==
    /\ op.name = "refresh" /\ op.ret = "false" /\ cmds = 2
    /\ session[1].client_id.some
    /\ ~use_drive[1]
    /\ cloud # data[1] /\ cloud # EmptyStore

\* C16: in refresh_from_cloud, after a load that failed on authentication
\* exactly one token refresh is attempted; the load is retried exactly once
\* if the refresh succeeded and not at all if it failed; if the refresh or
\* the retried load fails the command returns an error and the in-memory
\* store and the local snapshot are unchanged.
RefreshRetriesLoadOnce ==
    [][(/\ cmds' = cmds + 1 /\ op'.name = "refresh"
        /\ calls' # <<>> /\ calls'[1] = Event("load", "expired")) =>
            LET log == calls'
                d == op'.dev
            IN  /\ Len(log) >= 2 /\ log[2].call = "refresh"
                /\ IF log[2].result # "ok"
                   THEN Len(log) = 2 /\ op'.ret = "err_cloud"
                   ELSE /\ Len(log) >= 3 /\ log[3].call = "load"
                        /\ IF log[3].result # "ok"
                           THEN Len(log) = 3 /\ op'.ret = "err_cloud"
                           ELSE op'.ret # "err_cloud"
                /\ \A i \in 4..Len(log) :
                      /\ log[i].call # "load"
                      /\ log[i].call = "refresh" =>
                            \E j \in 4..(i - 1) : log[j].call = "upload"
                /\ op'.ret = "err_cloud" =>
                      data' = data /\ disk' = disk /\ cloud' = cloud]_vars

\* a refresh whose first load got a 401, whose token refresh and retried
\* load succeeded and which merged two stores
RefreshedAfterTokenRefresh ==
    /\ op.name = "refresh" /\ op.ret = "true" /\ op.lt = "merge"
    /\ Len(calls) = 4
    /\ calls[1] = Event("load", "expired")
    /\ calls[2] = Event("refresh", "ok")
    /\ calls[3] = Event("load", "ok")
    /\ session[1].access_token = Some(NewToken)

\* C17: whenever refresh_from_cloud returns true, the local snapshot and
\* the cloud object both equal the merged in-memory store.
RefreshWritesBothBackends ==
    [][(cmds' = cmds + 1 /\ op'.name = "refresh" /\ op'.ret = "true") =>
        /\ disk'[op'.dev] = data'[op'.dev]
        /\ cloud' = data'[op'.dev]]_vars

\* C18: after a successful disconnect token.json does not exist,
\* oauth_credentials.json is as it was, and get_oauth_status returns
\* (true, false) if oauth_credentials.json exists.
DisconnectRemovesTokenFile ==
    [][\A d \in Devices :
        (/\ cmds' = cmds + 1 /\ op'.name = "disconnect"
         /\ op'.dev = d /\ op'.ret = "ok") =>
            /\ ~files'[d].token.some
            /\ files'[d].credentials = files[d].credentials
            /\ files[d].credentials =>
                  get_oauth_status(d)' = <<TRUE, FALSE>>]_vars

\* a disconnect of a logged-in Storage that has its credentials file
DisconnectedWithCredentials ==
    /\ op.name = "disconnect" /\ op.ret = "ok"
    /\ session[1].client_id.some
    /\ files[1].credentials /\ ~files[1].token.some
    /\ get_oauth_status(1) = <<TRUE, FALSE>>

\* C19: after a successful disconnect access_token, refresh_token,
\* client_id, client_secret, folder_id and file_id are all None and
\* use_drive is false.
DisconnectClearsSession ==
    [][(cmds' = cmds + 1 /\ op'.name = "disconnect" /\ op'.ret = "ok") =>
        /\ session'[op'.dev] = NoSession
        /\ ~use_drive'[op'.dev]]_vars

\* C20: while the listener waits, a connection whose first request line is
\* not a request for the root path with a code query parameter is answered
\* with 404 and leaves the listener waiting; the listener stops waiting only
\* on the first request that carries code, which it answers with the
\* success page before returning that code.
\* (the path is the second word of the first line; it carries code when it
\* starts with /? and a parameter of its query reads code=value)
query_end(path) ==
    IF \E i \in 3..Len(path) : path[i] = "?"
    THEN MinOf({i \in 3..Len(path) : path[i] = "?"}) - 1
    ELSE Len(path)
code_starts(path) ==
    {i \in 3..(query_end(path) - 1) :
        /\ i = 3 \/ path[i - 1] = "&"
        /\ path[i] = "code" /\ path[i + 1] = "="}
carries_code(request) ==
    /\ Len(request) >= 1 /\ Len(request[1]) >= 2
    /\ LET path == request[1][2]
       IN  /\ Len(path) >= 2 /\ path[1] = "/" /\ path[2] = "?"
           /\ code_starts(path) # {}
carried_code(path) ==
    LET i == MinOf(code_starts(path))
        stops == {j \in (i + 2)..query_end(path) : path[j] \in {"&", "="}}
    IN  SubSeq(path, i + 2,
               IF stops = {} THEN query_end(path) ELSE MinOf(stops) - 1)

ListenerReturnsOnlyOnCode ==
    [][(listener.state \in {"accepting", "parsing"} /\ listener' # listener) =>
        /\ listener'.state \in {"accepting", "parsing", "returned"}
        /\ listener.state = "parsing" =>
              IF carries_code(listener.request)
              THEN /\ listener'.state = "returned"
                   /\ listener'.reply = "200"
                   /\ listener'.code = Some(carried_code(listener.request[1][2]))
              ELSE /\ listener'.state = "accepting"
                   /\ listener'.reply = "404"]_vars

\* C21: load_local never fails on unparsable content. With no reminders.json
\* it returns the empty store; a readable file in the current schema is
\* returned as it is; a readable legacy file, when load_local returns, has
\* been copied to the backup and replaced by the migrated store, which is
\* what is returned; content that parses under neither schema gives the
\* empty store.
LoadLocalFallsBackInOrder ==
    \A io \in LoadIOs :
        LET file == snap[1]
            r == load_local(disk[1], file, now, io)
            m == try_migrate_legacy_data(file.content, now, io.backup)
        IN  /\ file.content.kind = "absent" => r.ok /\ r.data = EmptyStore
            /\ (file.content.kind = "current" /\ io.read = "ok") =>
                    r.ok /\ r.data = disk[1] /\ r.snap = file
            /\ (file.content.kind = "legacy" /\ r.ok) =>
                    /\ r.data = m.migrated.val
                    /\ r.disk = r.data /\ r.snap.content = CurrentContent
                    /\ r.snap.backup = Some(file.content)
            /\ (file.content.kind = "garbage" /\ io.read = "ok") =>
                    r.ok /\ r.data = EmptyStore /\ r.snap = file

\* C22: when Storage::new() returns a Storage whose load_local found content
\* in reminders.json that parses under neither schema, the backup holds that
\* content; and whenever such content is overwritten, the backup holds it.
BackupBeforeEmptyStore ==
    [][LET raw == snap[1].content
       IN  raw.kind = "garbage" =>
            /\ (op.name = "off" /\ op'.name = "new" /\ op'.ret = "ok") =>
                    snap'[1].backup = Some(raw)
            /\ snap'[1].content # raw => snap'[1].backup = Some(raw)]_vars

\* C23: Storage::new() returns a Storage whatever the file operations of
\* load_local do: a reminders.json that cannot be read, or a migrated store
\* that cannot be written back, never makes it return Err.
StartupSurvivesLocalFailure ==
    [][(op.name = "off" /\ op'.name = "new") => op'.ret = "ok"]_vars

\* the urgency a due time gives by the time from clock reading t to it, and
\* a migrated sequence that has it, the ids and Actual throughout
urgency_by_due_time(due_time, t) ==
    LET due == parse_from_rfc3339(due_time)
        ticks == due.inst - t
    IN  IF ~due.ok THEN "whenever"
        ELSE IF ticks <= TicksPerHour THEN "now"
        ELSE IF ticks <= 24 * TicksPerHour THEN "today"
        ELSE IF ticks <= 168 * TicksPerHour THEN "soon"
        ELSE "whenever"
migrated_as_claimed(legacy, migrated, t) ==
    /\ Len(migrated) = Len(legacy)
    /\ \A i \in 1..Len(legacy) :
        /\ migrated[i].id = legacy[i].id
        /\ migrated[i].list_type = "actual"
        /\ migrated[i].urgency = urgency_by_due_time(legacy[i].due_time, t)
\* C24: a Storage constructed without a Drive session from a legacy
\* reminders.json holds each legacy reminder under its id, in Actual, with
\* the urgency its due time gives: whenever for a due time that is no
\* timestamp, otherwise now when the time from the clock reading to the due
\* time is at most 1 hour (a past due time included), today when it is more
\* than 1 hour and at most 24, soon when it is more than 24 hours and at
\* most 168, whenever beyond.
MigrationUrgencyByDueTime ==
    [][(/\ op.name = "off" /\ op'.name = "new" /\ op'.ret = "ok"
        /\ snap[1].content.kind = "legacy" /\ ~use_drive'[1]) =>
            /\ migrated_as_claimed(snap[1].content.legacy.pending,
                                   data'[1].pending, now)
            /\ migrated_as_claimed(snap[1].content.legacy.completed,
                                   data'[1].completed, now)]_vars

\* C25: a refresh_from_cloud that merges a store and a Drive object holding
\* at most MAX_ACTUAL_TASKS pending reminders in Actual each leaves at most
\* MAX_ACTUAL_TASKS pending reminders in Actual in memory.
MergeKeepsActualWithinCapacity ==
    [][(/\ cmds' = cmds + 1 /\ op'.name = "refresh" /\ op'.ret = "true"
        /\ actual_count(data[op'.dev].pending) <= MAX_ACTUAL_TASKS
        /\ actual_count(cloud.pending) <= MAX_ACTUAL_TASKS) =>
            actual_count(data'[op'.dev].pending) <= MAX_ACTUAL_TASKS]_vars

\* every completed reminder of s has is_completed and a completed_at, every
\* pending one has neither
status_follows_list(s) ==
    /\ \A i \in 1..Len(s.completed) :
            s.completed[i].is_completed /\ s.completed[i].completed_at.some
    /\ \A i \in 1..Len(s.pending) :
            ~s.pending[i].is_completed /\ ~s.pending[i].completed_at.some
\* C26: after every command on a store built from the empty store, every
\* completed reminder has is_completed = true and a completed_at and every
\* pending reminder has is_completed = false and no completed_at; complete
\* moves a pending reminder to completed and uncomplete a completed one to
\* pending.
CompletionStatusFollowsList ==
    [][cmds' = cmds + 1 =>
        /\ \A d \in Devices : status_follows_list(data'[d])
        /\ (op'.name = "complete"
                /\ op'.id \in IdsOf(data[op'.dev].pending)) =>
                /\ op'.id \in IdsOf(data'[op'.dev].completed)
                /\ op'.id \notin IdsOf(data'[op'.dev].pending)
        /\ (op'.name = "uncomplete"
                /\ op'.id \in IdsOf(data[op'.dev].completed)) =>
                /\ op'.id \in IdsOf(data'[op'.dev].pending)
                /\ op'.id \notin IdsOf(data'[op'.dev].completed)]_vars

\* a completed reminder was restored to Actual
UncompletedAReminder ==
    /\ op.name = "uncomplete" /\ op.ret = "ok"
    /\ actual_count(data[1].pending) = op.pre + 1
    /\ op.id \in IdsOf(data[1].pending)
    /\ ~copy_of(data[1].pending, op.id).completed_at.some

\* C27: uncomplete of a completed reminder puts it in Actual iff fewer than
\* MAX_ACTUAL_TASKS pending reminders were in Actual at the call, otherwise
\* in Backlog; no other reminder changes its list; the restored reminder has
\* a sort_order strictly below every other reminder of its list.
UncompleteTakesFreeSlotOrBacklog ==
    [][(/\ cmds' = cmds + 1 /\ op'.name = "uncomplete"
        /\ op'.id \in IdsOf(data[op'.dev].completed)) =>
            LET before == data[op'.dev].pending
                after == data'[op'.dev].pending
                r == copy_of(after, op'.id)
            IN  /\ r.list_type = "actual" <=>
                        actual_count(before) < MAX_ACTUAL_TASKS
                /\ r.list_type = "backlog" <=>
                        actual_count(before) >= MAX_ACTUAL_TASKS
                /\ Len(after) = Len(before) + 1
                /\ \A i \in 1..Len(before) :
                        /\ after[i].id = before[i].id
                        /\ after[i].list_type = before[i].list_type
                /\ \A i \in 1..Len(after) :
                        (after[i].id # r.id /\ after[i].list_type = r.list_type)
                            => r.sort_order < after[i].sort_order]_vars

\* a reminder was restored to a Backlog that holds another reminder, Actual
\* being full
UncompletedToBacklog ==
    /\ op.name = "uncomplete" /\ op.ret = "ok" /\ op.pre = MAX_ACTUAL_TASKS
    /\ data[1].completed = <<>>
    /\ op.id \in IdsOf(data[1].pending)
    /\ copy_of(data[1].pending, op.id).list_type = "backlog"
    /\ Cardinality(BacklogIdx(data[1].pending)) >= 2

\* C28: every command taken as a whole holds the Mutex: a task that has
\* entered a command, start_oauth_flow included, and has not returned from
\* it holds the lock.
EveryCommandHoldsTheLock ==
    \A t \in Tasks : lock.pc[t] # "idle" => lock.holder = t

\* C28, as the code has it: a task inside a store command, inside a token
\* refresh, or inside one of the two blocks of start_oauth_flow that use the
\* Storage holds the Mutex, and the store is as the task found it when it
\* took the lock; at most one task is inside a token refresh; a task that
\* waits for complete_oauth_flow_blocking, or has returned from it and not
\* yet relocked, does not hold the Mutex.
LockSerializesStoreCommands ==
    /\ \A t \in Tasks :
        /\ lock.pc[t] \in {"command", "refreshing", "flow_url", "flow_reload"} =>
                lock.holder = t /\ lock.seen[t] = Some(data[1])
        /\ lock.pc[t] \in {"flow_wait", "flow_saved"} => lock.holder # t
    /\ Cardinality({t \in Tasks : lock.pc[t] = "refreshing"}) <= 1

\* a task is inside a token refresh of a command while another waits for
\* the authorization flow, after a command has changed the store
RefreshingWhileFlowWaits ==
    /\ \E t \in Tasks, u \in Tasks :
            lock.pc[t] = "refreshing" /\ lock.pc[u] = "flow_wait"
    /\ op.name \in {"add", "move"} /\ op.ret = "ok"

\* C29: update, set_urgency and move on an id that is not in pending, and
\* move of a reminder to the list it is in, return Ok, call nothing and
\* leave the store in memory, reminders.json, the Drive object, the session
\* and the token file as they were.
NoOpCommandsChangeNothing ==
    [][(/\ cmds' = cmds + 1
        /\ op'.name \in {"update", "set_urgency", "move"}
        /\ \/ op'.id \notin IdsOf(data[op'.dev].pending)
           \/ /\ op'.name = "move"
              /\ copy_of(data[op'.dev].pending, op'.id).list_type = op'.lt) =>
            /\ op'.ret = "ok"
            /\ calls' = NoCalls
            /\ UNCHANGED <<data, disk, cloud, session, files, snap>>]_vars

\* a move of a reminder to its own list, on a device whose store the Drive
\* object does not match
MovedToOwnList ==
    /\ op.name = "move" /\ op.ret = "ok" /\ use_drive[op.dev]
    /\ op.id \in IdsOf(data[op.dev].pending)
    /\ copy_of(data[op.dev].pending, op.id).list_type = op.lt
    /\ actual_count(data[op.dev].pending) = op.pre
    /\ cloud # data[op.dev]

\* C30: move, set_urgency and reorder, with a Drive session or without,
\* leave the Drive object, the session and the token file as they were,
\* make no cloud call and no token refresh, and never return the cloud-sync
\* error.
LocalOnlyCommandsSkipTheCloud ==
    [][(/\ cmds' = cmds + 1
        /\ op'.name \in {"move", "set_urgency", "reorder"}) =>
            /\ calls' = NoCalls
            /\ op'.ret # "err_cloud"
            /\ UNCHANGED <<cloud, session, files>>]_vars

\* a move between the lists on a device with a Drive session: written to
\* reminders.json, not to the Drive object
MovedLocallyOnly ==
    /\ op.name = "move" /\ op.ret = "ok" /\ use_drive[op.dev]
    /\ actual_count(data[op.dev].pending) # op.pre
    /\ disk[op.dev] = data[op.dev]
    /\ cloud # data[op.dev]

\* ------------------------------------------------------------------- C31
\* the command name with target id, on pending list p, is a delete or a
\* complete of a pending Actual reminder
frees_actual_slot(name, p, id) ==
    /\ name \in {"delete", "complete"}
    /\ position(p, id) # 0
    /\ p[position(p, id)].list_type = "actual"

\* C31: a reminder goes from Backlog to Actual as a side effect only when
\* the command is a delete or a complete whose target is a pending Actual
\* reminder. Every other command (add, update, set_urgency, reorder, move,
\* uncomplete, delete or complete of a Backlog, completed or unknown
\* reminder) leaves every Backlog reminder other than its target in Backlog.
PromotionOnlyOnFreedSlot ==
    [][cmds' = cmds + 1 =>
        LET d == op'.dev
            p == data[d].pending
            q == data'[d].pending
        IN  ~frees_actual_slot(op'.name, p, op'.id) =>
                \A i \in BacklogIdx(p) : \A j \in 1..Len(q) :
                    (p[i].id # op'.id /\ q[j].id = p[i].id)
                        => q[j].list_type = "backlog"]_vars

\* a delete of a reminder that was not in Actual, with room in Actual and a
\* reminder waiting in Backlog
DeletedOutsideActual ==
    /\ op.name = "delete" /\ op.ret = "ok"
    /\ op.pre = actual_count(data[1].pending)
    /\ op.pre < MAX_ACTUAL_TASKS
    /\ BacklogIdx(data[1].pending) # {}
    /\ op.id \in 1..MaxId

\* ------------------------------------------------------------------- C32
\* C32: a token refresh is attempted only right after a Drive call that
\* reported the expired token (a 401); a transport error, another status or
\* a missing file id is never followed by a token refresh.
RefreshOnlyAfterExpired ==
    \A i \in 1..Len(calls) :
        calls[i].call = "refresh" =>
            i > 1 /\ calls[i - 1].result = "expired"

\* ------------------------------------------------------------------- C33
\* the commands that return the error of their upload
SavingCommands == {"add", "complete", "sync"}

\* C33: an upload that got a 401 is the only first upload of its command and
\* is followed by one token refresh. If the refresh failed nothing follows
\* it; if it succeeded one upload with the new token follows and nothing
\* after that. A command that saves with save or sync_to_cloud returns the
\* cloud error when the refresh or the repeated upload failed and Ok when
\* the repeated upload succeeded.
ExpiredSaveRefreshesAndRetriesOnce ==
    [][cmds' = cmds + 1 =>
        \A i \in 1..Len(calls') :
            calls'[i] = Event("upload", "expired") =>
                LET log == calls'
                    d == op'.dev
                    saving == op'.name \in SavingCommands
                IN  /\ \A j \in 1..(i - 1) : log[j].call # "upload"
                    /\ Len(log) > i /\ log[i + 1].call = "refresh"
                    /\ IF log[i + 1].result # "ok"
                       THEN /\ Len(log) = i + 1
                            /\ saving => op'.ret = "err_cloud"
                            /\ cloud' = cloud
                       ELSE /\ Len(log) = i + 2
                            /\ log[i + 2].call = "upload"
                            /\ session'[d].access_token = Some(NewToken)
                            /\ IF log[i + 2].result = "ok"
                               THEN /\ saving => op'.ret = "ok"
                                    /\ cloud' = data'[d]
                               ELSE /\ saving => op'.ret = "err_cloud"
                                    /\ cloud' = cloud]_vars

\* an add whose upload got a 401, whose token refresh succeeded and whose
\* repeated upload failed
AddedWithFailedRetry ==
    /\ op.name = "add" /\ op.ret = "err_cloud"
    /\ calls = <<Event("upload", "expired"), Event("refresh", "ok"),
                 Event("upload", "error")>>
    /\ session[1].access_token = Some(NewToken)
    /\ cloud # data[1]

\* ------------------------------------------------------------------- C34
\* C34: a command in which a token refresh succeeded leaves token.json with
\* its token field replaced by the new access token and with refresh_token,
\* client_id and client_secret as they were, leaves oauth_credentials.json
\* alone, and holds the same new access token in memory; the other fields of
\* the session in memory keep their values.
RefreshRewritesOnlyTheToken ==
    [][(/\ cmds' = cmds + 1
        /\ \E i \in 1..Len(calls') : calls'[i] = Event("refresh", "ok")) =>
            LET d == op'.dev
            IN  /\ files[d].token.some /\ files'[d].token.some
                /\ files'[d].token.val =
                       [files[d].token.val EXCEPT !.token = NewToken]
                /\ files'[d].credentials = files[d].credentials
                /\ session'[d].access_token = Some(files'[d].token.val.token)
                /\ session'[d] =
                       [session[d] EXCEPT !.access_token = Some(NewToken)]]_vars

\* a sync_to_cloud that refreshed the token of a file holding a refresh
\* token
SyncedAfterTokenRefresh ==
    /\ op.name = "sync" /\ op.ret = "ok"
    /\ calls = <<Event("upload", "expired"), Event("refresh", "ok"),
                 Event("upload", "ok")>>
    /\ files[1].token = Some([TokenFile(Some("r")) EXCEPT !.token = NewToken])
    /\ session[1].access_token = Some(NewToken)
    /\ session[1].refresh_token = Some("r")

\* ------------------------------------------------------------------- C35
\* C35: once bound, the listener leaves its accept loop only by returning
\* the code of a request that carried one: no step takes it from waiting
\* for a connection, or from parsing a request, to any other end.
BoundListenerEndsOnlyWithCode ==
    [][listener.state \in {"accepting", "parsing"} =>
        \/ listener'.state \in {"accepting", "parsing"}
        \/ /\ listener'.state = "returned"
           /\ listener.state = "parsing"
           /\ carries_code(listener.request)
           /\ listener'.code.some]_vars

\* ------------------------------------------------------------------- C36
\* C36: a successful add to Actual, or move of a Backlog reminder into
\* Actual, on a store that holds more than MAX_ACTUAL_TASKS pending
\* reminders in Actual ends with at most MAX_ACTUAL_TASKS of them in Actual.
AdmissionRestoresCapacity ==
    [][(/\ cmds' = cmds + 1
        /\ op'.name \in {"add", "move"} /\ op'.lt = "actual"
        /\ op'.ret = "ok"
        /\ op'.pre > MAX_ACTUAL_TASKS
        /\ data'[op'.dev] # data[op'.dev]) =>
            actual_count(data'[op'.dev].pending) <= MAX_ACTUAL_TASKS]_vars

\* ------------------------------------------------------------------- C37
\* the command op2 ran on store s, saved locally and the write succeeded
wrote_locally(op2, s) ==
    LET found == position(s.pending, op2.id) # 0
    IN  CASE op2.name \in {"add", "delete"} -> op2.ret \in {"ok", "err_cloud"}
          [] op2.name \in {"update", "complete"} ->
                found /\ op2.ret \in {"ok", "err_cloud"}
          [] op2.name = "uncomplete" ->
                position(s.completed, op2.id) # 0
                /\ op2.ret \in {"ok", "err_cloud"}
          [] op2.name = "set_urgency" -> found /\ op2.ret = "ok"
          [] op2.name = "move" ->
                /\ found /\ op2.ret = "ok"
                /\ s.pending[position(s.pending, op2.id)].list_type # op2.lt
          [] op2.name = "reorder" -> op2.ret = "ok"
          [] op2.name = "refresh" -> op2.ret = "true"
          [] OTHER -> FALSE

\* C37: when a command has written reminders.json successfully, whether or
\* not its upload then failed, reminders.json holds the store that is in
\* memory when the command returns.
SnapshotEqualsMemoryAfterLocalWrite ==
    [][(cmds' = cmds + 1 /\ wrote_locally(op', data[op'.dev])) =>
        /\ disk'[op'.dev] = data'[op'.dev]
        /\ snap'[op'.dev].content = CurrentContent]_vars

\* a complete that wrote reminders.json and whose upload failed, the
\* second command of its run
SnapshotWrittenUploadFailed ==
    /\ op.name = "complete" /\ op.ret = "err_cloud"
    /\ cmds = 2
    /\ Len(data[1].completed) = 1 /\ data[1].pending = <<>>
    /\ disk[1] = data[1]
    /\ cloud = EmptyStore

\* ------------------------------------------------------------------- C38
\* C38: whenever is_logged_in returns true (use_drive is set and an access
\* token is held) the id of the Drive object is known, also after a
\* reload_oauth_state that failed.
LoggedInKnowsFileId ==
    \A d \in Devices : is_logged_in(d) => session[d].file_id.some

\* ------------------------------------------------------------------- C39
\* C39: every step that changes token.json is taken by the task that holds
\* the Mutex, so no write of the file falls between the read and the write
\* of another task's token refresh.
TokenFileWrittenUnderLock ==
    [][files' # files =>
        /\ lock.holder # 0
        /\ lock.pc[lock.holder] # "idle"
        /\ lock'.pc[lock.holder] = "idle"]_vars

\* ------------------------------------------------------------------- C40
\* C40: after a delete_reminder has returned, with Ok or with the error of
\* its upload, a refresh_from_cloud on the same device leaves the deleted
\* id out of the pending and of the completed list.
DeletedStaysDeleted ==
    [][(/\ cmds' = cmds + 1
        /\ op.name = "delete" /\ op.ret \in {"ok", "err_cloud"}
        /\ op'.name = "refresh" /\ op'.dev = op.dev) =>
            op.id \notin IdsOf(data'[op.dev].pending)
                         \cup IdsOf(data'[op.dev].completed)]_vars

====
